---- MODULE Spec2Model ----
(***************************************************************************)
(* Model of the dart detector of no-bulls-hit (DartDetector.tsx, both      *)
(* source variants held in src/unnamed/part_003): frame ingestion over the *)
(* WebSocket, the requestAnimationFrame-scheduled processing pass, the     *)
(* calibration engine, the stillness state machine and dart detection.     *)
(*                                                                         *)
(* React state is modelled as the component's committed state; a handler   *)
(* reads the state through the closure of the render that created it, so   *)
(* the model keeps the last render's closure (rendered) and the closure    *)
(* handed to requestAnimationFrame (rafQueue) next to the state itself.    *)
(* A render caused by a click runs its effects inside the click; the       *)
(* effects of any other render run after its commit, as a step of their    *)
(* own (effected is the render whose effects ran last).                    *)
(***************************************************************************)
EXTENDS Integers, Sequences, FiniteSets, TLC

\* ------------------------------------------------------------------ bounds
MaxFrames == 3      \* WebSocket frame messages in one behaviour of Spec, SpecReset
MaxConnFrames == 2  \* WebSocket frame messages in one behaviour of SpecConn
MaxCalFrames == 2   \* WebSocket frame messages in one behaviour of SpecCal
MaxFlowFrames == 5  \* WebSocket frame messages in one behaviour of SpecFlow
MaxRunFrames == 7   \* WebSocket frame messages in one behaviour of SpecRun
MaxSockets == 2     \* WebSocket objects created in one behaviour
MaxCalib == 1       \* successful homography solves in one behaviour
MaxPoints == 5      \* clicked calibration points kept in state
MaxTicks == 2       \* advances of performance.now() in one behaviour
MaxCalTicks == 1    \* advances of performance.now() in one behaviour of SpecCal
MaxFlowTicks == 3   \* advances of performance.now() in one behaviour of SpecFlow
MaxRunTicks == 6    \* advances of performance.now() in one behaviour of SpecRun
MaxStartFrames == 4 \* WebSocket frame messages in one behaviour of SpecStart
MaxStartTicks == 3  \* advances of performance.now() in one behaviour of SpecStart
MaxThrowFrames == 10 \* WebSocket frame messages in one behaviour of SpecThrow
MaxThrowTicks == 3  \* advances of performance.now() in one behaviour of SpecThrow
MaxBootFrames == 1  \* WebSocket frame messages in one behaviour of SpecBoot
MaxPureFrames == 4  \* WebSocket frame messages in one behaviour of SpecPure
MaxPureTicks == 1   \* advances of performance.now() in one behaviour of SpecPure
MaxScoreCalls == 2  \* calls of getScoreFromCoords on one point in SpecPure
MaxRelaySockets == 3 \* WebSocket connections the relay accepts in one behaviour
MaxStorePlayers == 3 \* players added to the game store during setup
MaxGamePlayers == 2  \* players of a game in progress
MaxStoreCalls == 4   \* calls of game store actions in one behaviour
MaxContours == 3    \* contours of one difference mask in SpecContour
MaxContourPoints == 4 \* points of the contour handed to findDartTip in SpecTip
TimeStep == 500     \* performance.now() advances in steps of this many ms

\* ------------------------------------------------------- program constants
CALIBRATION_TARGET_SIZE == 500
\* the area limits of a dart contour (centroid variant) and the noise limit
\* (lowest-point variant), in pixels
DEFAULT_DARTS_PER_TURN == 3
DartAreaMin == 500
DartAreaMax == 2000
NoiseArea == 50
CALIBRATION_POINTS_REQUIRED == 4
DetectionCooldownMs == 1000
ThrottleMs == 200
\* thresholds and mean differences are kept in tenths of an intensity unit
MotionThresholdX10 == 25
StillnessThresholdX10 == 20

None == << >>
Some(x) == << x >>

Variants == {"centroid", "lowest"}

\* SourceDimensions of a raw frame
Dims == { [width |-> 640, height |-> 480], [width |-> 1280, height |-> 720] }
DefaultDims == [width |-> 640, height |-> 480]

\* full-frame intensity level of a scene, in tenths
Levels == {0, 200}

\* the outcome of the contour search of one detection attempt
Outcomes == {"tip", "none"}

VARIABLES
  variant,                  \* which DartDetector source is running
  \* React state
  cvLoaded, isConnected, isCalibrating, isStill, calibrationData, error,
  dimensions, clickedPoints, detectedTip,
  rendered,                 \* the state as captured by the last render's closures
  effected,                 \* the render whose effects have run last
  \* refs
  processingScheduled, prevWarpedFrameRef, stillFrameBeforeDartRef,
  stillFrameAfterDartRef, lastDetectionTimeRef, lastFrameTime,
  rafQueue,                 \* callbacks handed to requestAnimationFrame, not yet run
  wsRef, sockets,
  \* the hidden <img> element: current (decoded) and pending request
  imgCur, imgPending,
  \* environment
  now, storage, nextSeq, calibSeq, limits,
  \* observation
  detectCount, lastDetect, delivered, lastPass,
  script,                   \* observations so far that follow HysteresisScript (-1: off it)
  inTurn,                   \* frames rectified so far, one pass per frame in turn (-1: not so)
  lastCloseSeq,             \* nextSeq when the stream last disconnected (0: never)
  latestDecoded,            \* seq of the frame whose onload fired last (0: none)
  \* the contour filter of a detectDart call
  contourAreas,             \* cv.contourArea of the contours found, in order
  largestContour,           \* index of the contour it keeps, -1: none (None: not run)
  \* a call of findDartTip
  contour,                  \* its argument: the points of a contour, in order
  tipResult,                \* its return value (None: it has not returned)
  \* a call of getScoreFromCoords
  point,                    \* its argument
  scoreResult,              \* its return value (None: it has not returned)
  scoreSeen,                \* per argument: the first value returned, the number of calls
  \* the module-level objects getScoreFromCoords reads
  segmentScores,            \* array of the 20 face values (index k is entry k + 1)
  radii,                    \* object of the six ring radii
  \* the relay server (camera-stream-server)
  relayUp,                  \* the node process is running
  conns,                    \* per WebSocket of the relay: state, role, close code sent
  cameraSocket,             \* the designated camera (0: null)
  clientSockets,            \* the set of identified clients
  lastSent,                 \* the last message event: sender and receivers
  \* the game store (useGameStore)
  gameMode, players, legsToWin, currentPlayerIndex, dartsRemaining,
  gameStarted, gameFinished, currentTurn,
  bustDarts,                \* per dart of currentTurn: registerDart judged it a bust
  storeCalls                \* calls of store actions so far

reactState == << cvLoaded, isConnected, isCalibrating, isStill, calibrationData,
                 error, dimensions, clickedPoints, detectedTip >>
refVars == << processingScheduled, rafQueue, prevWarpedFrameRef,
              stillFrameBeforeDartRef, stillFrameAfterDartRef,
              lastDetectionTimeRef, lastFrameTime >>
wsVars == << wsRef, sockets >>
imgVars == << imgCur, imgPending >>
envVars == << now, nextSeq, calibSeq, limits >>
obsVars == << detectCount, lastDetect, delivered, lastPass, script, inTurn >>
scoreVars == << point, scoreResult, scoreSeen, segmentScores, radii >>
visionVars == << contourAreas, largestContour, contour, tipResult >>
relayVars == << relayUp, conns, cameraSocket, clientSockets, lastSent >>
gameVars == << gameMode, players, legsToWin, currentPlayerIndex, dartsRemaining,
              gameStarted, gameFinished, currentTurn, bustDarts, storeCalls >>
appVars == << relayVars, gameVars >>
detectorVars == << variant, reactState, rendered, effected, refVars, wsVars, imgVars, envVars,
                  storage, obsVars, lastCloseSeq, latestDecoded >>
vars == << variant, reactState, rendered, effected, refVars, wsVars, imgVars, envVars, storage,
          obsVars, lastCloseSeq, latestDecoded, scoreVars, visionVars, appVars >>

\* ---------------------------------------------------------------- helpers
\* pixel coordinates of the points of a contour
ContourCoords == 0..2

\* contour areas on both sides of each limit
ContourAreaValues == {0, 50, 51, 500, 501, 1200, 1999, 2000, 2500}

SameDims(a, b) == a.width = b.width /\ a.height = b.height

\* the values a render's closures capture
Closure ==
  [ cvLoaded |-> cvLoaded, isConnected |-> isConnected,
    isCalibrating |-> isCalibrating, calibrationData |-> calibrationData,
    dimensions |-> dimensions, isStill |-> isStill,
    detectedTip |-> detectedTip, clickedPoints |-> clickedPoints ]

\* processFrameRef.current: processFrame as built by the last render whose
\* effects have run, with the state values its body reads
processFrameRef ==
  [ cvLoaded |-> effected.cvLoaded, isConnected |-> effected.isConnected,
    isCalibrating |-> effected.isCalibrating,
    calibrationData |-> effected.calibrationData,
    isStill |-> effected.isStill, detectedTip |-> effected.detectedTip ]

Abs(x) == IF x < 0 THEN -x ELSE x

\* cv.mean(gray(absdiff(a, b)))[0], in tenths
MeanDiff(a, b) == Abs(a.lvl - b.lvl)

\* cv.warpPerspective(src, warped, M, 500x500): the canonical frame keeps the
\* identity of the raw frame and of the homography it was rectified with
WarpPerspective(src, cal) ==
  [ seq |-> src.seq, lvl |-> src.lvl, dim |-> src.dim, H |-> cal.H, live |-> TRUE ]

NoPass == [ branch |-> "none", src |-> None, warped |-> None, cal |-> None,
            prev |-> None,
            cooldown |-> FALSE, obs |-> None, wasStill |-> FALSE,
            nowStill |-> FALSE, stale |-> FALSE, detect |-> FALSE,
            hadBefore |-> FALSE, thrown |-> FALSE, mismatch |-> FALSE ]

NoSocket == [ st |-> "none", dims |-> [width |-> 640, height |-> 480, gen |-> 0],
              inited |-> FALSE ]

\* what localStorage['dartboardCalibration'] can hold at startup:
\*   "ok"          a record as calculateAndStoreHomography writes it
\*   "short"       JSON with imagePoints, worldPoints and homographyMatrix
\*                 present, but fewer than 4 points in the point lists
\*   "nodims"      JSON with the three fields well formed, but without
\*                 sourceDimensions
\*   "longmatrix"  JSON whose homographyMatrix holds more than 9 numbers
\*   "bad"         JSON that lacks one of the three fields
\*   "unparsable"  text that is not JSON
StoredRecords ==
  { [shape |-> "ok", dims |-> d, H |-> 0] : d \in Dims } \cup
  { [shape |-> s, dims |-> DefaultDims, H |-> 0] :
      s \in {"short", "nodims", "longmatrix", "bad", "unparsable"} }

\* JSON.parse(savedCalibration) returns a value
Parses(entry) == entry.shape # "unparsable"

\* parsedData.imagePoints && parsedData.worldPoints && parsedData.homographyMatrix
BasicValidation(entry) == entry.shape \in {"ok", "short", "nodims", "longmatrix"}

\* calibrationData.sourceDimensions.width of a record without sourceDimensions
\* throws a TypeError
SourceDimensionsThrows(cal) == cal.shape = "nodims"

\* cv.matFromArray(3, 3, cv.CV_64F, homographyMatrix) copies the array into the
\* 9 entries of the new Mat and throws a RangeError when it is longer
MatFromArrayThrows(cal) == cal.shape = "longmatrix"

FreeSocketsIn(socks) == { s \in 1..MaxSockets : socks[s].st = "none" }
NewSocketIn(socks) ==
  CHOOSE s \in FreeSocketsIn(socks) : \A t \in FreeSocketsIn(socks) : s <= t
FreeSockets == FreeSocketsIn(sockets)
NewSocket == NewSocketIn(sockets)

\* ------------------------------------------------------------------- Init
\* The component has mounted: the first render's effects have stored
\* processFrame in processFrameRef and called connectWebSocket once.
InitCommon ==
  /\ variant \in Variants
  /\ cvLoaded = FALSE /\ isConnected = FALSE /\ isCalibrating = FALSE
  /\ isStill = FALSE /\ calibrationData = None /\ error = ""
  /\ dimensions = [width |-> 640, height |-> 480, gen |-> 0]
  /\ clickedPoints = 0 /\ detectedTip = FALSE
  /\ rendered = Closure /\ effected = Closure
  /\ processingScheduled = FALSE /\ rafQueue = << >>
  /\ prevWarpedFrameRef = None /\ stillFrameBeforeDartRef = None
  /\ stillFrameAfterDartRef = None
  /\ lastDetectionTimeRef = 0 /\ lastFrameTime = 0
  /\ wsRef = 1
  /\ sockets = [ s \in 1..MaxSockets |->
                   IF s = 1 THEN [st |-> "connecting", dims |-> dimensions, inited |-> FALSE]
                   ELSE NoSocket ]
  /\ imgCur = None /\ imgPending = None
  /\ now = 0 /\ nextSeq = 1 /\ calibSeq = 0
  /\ detectCount = 0 /\ lastDetect = None /\ delivered = 0
  /\ lastPass = NoPass /\ script = 0 /\ inTurn = 0
  /\ lastCloseSeq = 0 /\ latestDecoded = 0

\* neither getScoreFromCoords nor the contour filter nor findDartTip has been
\* called
NoConn == [st |-> "none", role |-> "new", code |-> 0]

\* the relay has just started: no connection yet
RelayStarted ==
  /\ relayUp = TRUE
  /\ conns = [ s \in 1..MaxRelaySockets |-> NoConn ]
  /\ cameraSocket = 0 /\ clientSockets = {}
  /\ lastSent = None

\* the game store as created, no action called yet
StoreCreated ==
  /\ gameMode = 501 /\ players = << >> /\ legsToWin = 3
  /\ currentPlayerIndex = 0 /\ dartsRemaining = DEFAULT_DARTS_PER_TURN
  /\ gameStarted = FALSE /\ gameFinished = FALSE /\ currentTurn = << >>
  /\ bustDarts = << >> /\ storeCalls = 0

AppIdle == RelayStarted /\ StoreCreated

NoVisionCall ==
  /\ contourAreas = << >> /\ largestContour = None
  /\ contour = << >> /\ tipResult = None
  /\ AppIdle

\* the array literal bound to segmentScores when the module is evaluated
SegmentScoresAtLoad ==
  << 20, 1, 18, 4, 13, 6, 10, 15, 2, 17, 3, 19, 7, 16, 8, 11, 14, 9, 12, 5 >>

\* the object literal bound to radii when the module is evaluated: ring radii
\* in pixels of the 500x500 canonical board
RadiiAtLoad ==
  [ doubleBull |-> 8, singleBull |-> 20, innerTriple |-> 120,
    outerTriple |-> 135, innerDouble |-> 200, outerDouble |-> 215 ]

\* the module has been evaluated: both objects hold their literals
ScoringModuleLoaded ==
  segmentScores = SegmentScoresAtLoad /\ radii = RadiiAtLoad

NoScoringCall ==
  /\ point = None /\ scoreResult = None /\ scoreSeen = << >>
  /\ ScoringModuleLoaded /\ NoVisionCall

Init ==
  /\ NoScoringCall
  /\ InitCommon
  /\ storage \in {None} \cup { Some(r) : r \in StoredRecords }
  /\ limits = [frames |-> MaxFrames, now |-> MaxTicks * TimeStep]

\* ------------------------------------------------- the state a handler edits
\* Handlers are straight-line code over the React setters and the refs; each is
\* written as a function from this record to this record.
Cur ==
  [ isConnected |-> isConnected, isCalibrating |-> isCalibrating, isStill |-> isStill,
    calibrationData |-> calibrationData, error |-> error,
    clickedPoints |-> clickedPoints, detectedTip |-> detectedTip,
    storage |-> storage,
    sched |-> processingScheduled, raf |-> rafQueue,
    prev |-> prevWarpedFrameRef, before |-> stillFrameBeforeDartRef,
    after |-> stillFrameAfterDartRef,
    lastDet |-> lastDetectionTimeRef, lastFrame |-> lastFrameTime,
    detectCount |-> detectCount, lastDetect |-> lastDetect, delivered |-> delivered,
    info |-> NoPass ]

\* the values a render of the state m captures
ClosureOf(m) ==
  [ cvLoaded |-> cvLoaded, isConnected |-> m.isConnected,
    isCalibrating |-> m.isCalibrating, calibrationData |-> m.calibrationData,
    dimensions |-> dimensions, isStill |-> m.isStill,
    detectedTip |-> m.detectedTip, clickedPoints |-> m.clickedPoints ]

\* the handler's edits become the next state
Commit(m) ==
  /\ isConnected' = m.isConnected /\ isCalibrating' = m.isCalibrating
  /\ isStill' = m.isStill /\ calibrationData' = m.calibrationData
  /\ error' = m.error /\ clickedPoints' = m.clickedPoints
  /\ detectedTip' = m.detectedTip /\ storage' = m.storage
  /\ processingScheduled' = m.sched /\ rafQueue' = m.raf
  /\ prevWarpedFrameRef' = m.prev /\ stillFrameBeforeDartRef' = m.before
  /\ stillFrameAfterDartRef' = m.after
  /\ lastDetectionTimeRef' = m.lastDet /\ lastFrameTime' = m.lastFrame
  /\ detectCount' = m.detectCount /\ lastDetect' = m.lastDetect
  /\ delivered' = m.delivered

\* ------------------------------------------------------ calibration engine
\* a resetCalibration without localStorage.removeItem
resetCalibrationKeepsStorage(m) ==
  [ m EXCEPT !.calibrationData = None, !.error = "",
             !.clickedPoints = 0, !.isCalibrating = FALSE ]

resetCalibration(m) ==
  [ m EXCEPT !.calibrationData = None, !.storage = None, !.error = "",
             !.clickedPoints = 0, !.isCalibrating = FALSE ]

\* --------------------------------------------------------------- detectDart
\* a detectDart that leaves the pre-throw reference where it was
detectDartKeepsBaseline(m, frameAfter, frameBefore, outcome) ==
  LET found == outcome = "tip"
  IN [ m EXCEPT !.detectedTip = found,
                !.lastDet = IF found THEN now ELSE @,
                !.delivered = IF found THEN @ + 1 ELSE @,
                !.detectCount = @ + 1,
                !.lastDetect = Some([after |-> frameAfter, before |-> frameBefore,
                                     found |-> found]) ]

\* a detectDart that stamps the detection time on every attempt and only
\* advances the pre-throw reference when a tip was found
detectDartTreatsMissAsHit(m, frameAfter, frameBefore, outcome) ==
  LET found == outcome = "tip"
  IN [ m EXCEPT !.detectedTip = found,
                !.lastDet = now,
                !.delivered = IF found THEN @ + 1 ELSE @,
                !.before = IF found THEN Some(frameAfter) ELSE @,
                !.detectCount = @ + 1,
                !.lastDetect = Some([after |-> frameAfter, before |-> frameBefore,
                                     found |-> found]) ]

\* detectDart(frameAfter, frameBefore) of the centroid variant; outcome is what
\* the contour search and findDartTip yield for the two frames
detectDartCentroid(m, frameAfter, frameBefore, outcome) ==
  LET found == outcome = "tip"
  IN [ m EXCEPT !.detectedTip = found,
                !.lastDet = IF found THEN now ELSE @,
                !.delivered = IF found THEN @ + 1 ELSE @,
                !.before = Some(frameAfter),
                !.detectCount = @ + 1,
                !.lastDetect = Some([after |-> frameAfter, before |-> frameBefore,
                                     found |-> found]) ]

\* detectDart of the lowest-point variant: no score, no cooldown timestamp
detectDartLowest(m, frameAfter, frameBefore, outcome) ==
  LET found == outcome = "tip"
  IN [ m EXCEPT !.detectedTip = found,
                !.before = Some(frameAfter),
                !.detectCount = @ + 1,
                !.lastDetect = Some([after |-> frameAfter, before |-> frameBefore,
                                     found |-> found]) ]

\* ------------------------------------------------------------ processFrame
\* c is the closure of the processFrame that was handed to
\* requestAnimationFrame; the refs and performance.now() are read live.
Stale(c) == c.isStill # isStill \/ c.calibrationData # calibrationData
            \/ c.isCalibrating # isCalibrating \/ c.isConnected # isConnected

Info(c, branch) == [ NoPass EXCEPT !.branch = branch, !.src = imgCur,
                                   !.cal = c.calibrationData,
                                   !.wasStill = c.isStill, !.stale = Stale(c) ]

\* a trigger block whose "NOT Still -> STILL" edge does not look at the cooldown
TriggerIgnoringCooldown(m, c, warped, currentIsStill, cooldown, outcome) ==
  IF currentIsStill /\ ~c.isStill
  THEN IF m.before # None
       THEN LET m1 == [ m EXCEPT !.after = Some(warped) ]
                m2 == detectDartCentroid(m1, m1.after[1], m1.before[1], outcome)
            IN [ m2 EXCEPT !.info.detect = TRUE, !.info.hadBefore = TRUE ]
       ELSE [ m EXCEPT !.before = Some(warped) ]
  ELSE IF ~currentIsStill /\ c.isStill
       THEN IF m.before = None
            THEN [ m EXCEPT !.before = m.prev ]
            ELSE [ m EXCEPT !.info.hadBefore = TRUE ]
       ELSE m

\* a trigger block whose "STILL -> NOT Still" edge always takes the previous
\* frame as the pre-throw frame, held or not
TriggerRebasesOnMotion(m, c, warped, currentIsStill, cooldown, outcome) ==
  IF currentIsStill /\ ~c.isStill /\ ~cooldown
  THEN IF m.before # None
       THEN LET m1 == [ m EXCEPT !.after = Some(warped) ]
                m2 == detectDartCentroid(m1, m1.after[1], m1.before[1], outcome)
            IN [ m2 EXCEPT !.info.detect = TRUE, !.info.hadBefore = TRUE ]
       ELSE [ m EXCEPT !.before = Some(warped) ]
  ELSE IF ~currentIsStill /\ c.isStill
       THEN [ m EXCEPT !.before = m.prev, !.info.hadBefore = m.before # None ]
       ELSE m

\* the "NOT Still -> STILL" / "STILL -> NOT Still" block of the centroid variant
TriggerCentroid(m, c, warped, currentIsStill, cooldown, outcome) ==
  IF currentIsStill /\ ~c.isStill /\ ~cooldown
  THEN IF m.before # None
       THEN LET m1 == [ m EXCEPT !.after = Some(warped) ]
                m2 == detectDartCentroid(m1, m1.after[1], m1.before[1], outcome)
            IN [ m2 EXCEPT !.info.detect = TRUE, !.info.hadBefore = TRUE ]
       ELSE [ m EXCEPT !.before = Some(warped) ]
  ELSE IF ~currentIsStill /\ c.isStill
       THEN IF m.before = None
            THEN [ m EXCEPT !.before = m.prev ]
            ELSE [ m EXCEPT !.info.hadBefore = TRUE ]
       ELSE m

\* the warped branch of the centroid variant: stillness check, trigger, prev update
WarpBranchCentroid(m, c, src, outcome) ==
  LET warped == WarpPerspective(src, c.calibrationData[1])
      cooldown == ~(now - m.lastDet > DetectionCooldownMs)
      compare == ~cooldown /\ m.prev # None
      meanDiff == MeanDiff(warped, m.prev[1])
      calculatedIsStill == meanDiff < MotionThresholdX10
      currentIsStill == IF cooldown THEN TRUE
                        ELSE IF compare THEN calculatedIsStill ELSE c.isStill
      m1 == IF cooldown
            THEN [ m EXCEPT !.isStill = IF ~c.isStill THEN TRUE ELSE @ ]
            ELSE IF compare /\ calculatedIsStill # c.isStill
                 THEN [ m EXCEPT !.isStill = calculatedIsStill ]
                 ELSE m
      m2 == [ m1 EXCEPT !.info.warped = Some(warped), !.info.cooldown = cooldown,
                        !.info.prev = IF compare THEN m.prev ELSE None,
                        !.info.obs = IF compare THEN Some(meanDiff) ELSE None,
                        !.info.nowStill = currentIsStill ]
      m3 == TriggerCentroid(m2, c, warped, currentIsStill, cooldown, outcome)
  IN [ m3 EXCEPT !.prev = Some(warped) ]

\* "Connected, but not calibrating and not yet calibrated" of the centroid variant
UncalibratedCentroid(m, c) ==
  [ m EXCEPT !.isStill = IF c.isStill THEN FALSE ELSE @,
             !.prev = None, !.before = None, !.after = None,
             !.detectedTip = IF c.detectedTip THEN FALSE ELSE @ ]

\* .delete() on a Mat that was deleted before throws (embind BindingError)
DeleteThrows(ref) == ref # None /\ ~ref[1].live

\* the catch block of processFrame
Caught(m) == [ m EXCEPT !.error = "processing error", !.info.thrown = TRUE ]

\* processFrame of the centroid variant, run with the closure c
processFrameCentroid(c, outcome) ==
  LET m0 == [ Cur EXCEPT !.sched = FALSE, !.raf = Tail(@) ]
  IN IF ~c.cvLoaded \/ ~c.isConnected \/ imgCur = None
     THEN [ m0 EXCEPT !.info = [ Info(c, "exit") EXCEPT !.src = None ] ]
     ELSE IF c.calibrationData # None /\ SourceDimensionsThrows(c.calibrationData[1])
     THEN \* the dimension check stands before the try block
          [ m0 EXCEPT !.info = Info(c, "uncaught") ]
     ELSE
       LET src == imgCur[1]
           mismatch == c.calibrationData # None
                       /\ ( c.calibrationData[1].dims.width # src.dim.width
                            \/ c.calibrationData[1].dims.height # src.dim.height )
           m1 == IF mismatch
                 THEN resetCalibration([ m0 EXCEPT !.error = "dimensions changed" ])
                 ELSE m0
           branch == IF c.isCalibrating THEN "calibrating"
                     ELSE IF c.calibrationData # None THEN "warp" ELSE "uncalibrated"
           m2 == [ m1 EXCEPT !.info = [ Info(c, branch) EXCEPT !.mismatch = mismatch ] ]
       IN CASE branch = "calibrating" -> m2
            [] branch = "warp" -> IF MatFromArrayThrows(c.calibrationData[1])
                                  THEN Caught(m2)
                                  ELSE WarpBranchCentroid(m2, c, src, outcome)
            [] OTHER -> UncalibratedCentroid(m2, c)

\* the calibrated branch of the lowest-point variant
WarpBranchLowest(m, c, src, outcome) ==
  LET warpDst == WarpPerspective(src, c.calibrationData[1])
      compare == m.prev # None
      meanDiff == MeanDiff(warpDst, m.prev[1])
      quiet == meanDiff < StillnessThresholdX10
      m1 == [ m EXCEPT !.info.warped = Some(warpDst),
                       !.info.prev = IF compare THEN m.prev ELSE None,
                       !.info.obs = IF compare THEN Some(meanDiff) ELSE None,
                       !.info.nowStill = compare /\ quiet ]
  IN IF compare
     THEN IF quiet
          THEN IF ~c.isStill
               THEN LET m2 == [ m1 EXCEPT !.isStill = TRUE ]
                    IN IF DeleteThrows(m2.after) THEN Caught(m2)
                       ELSE LET m3 == [ m2 EXCEPT !.after = Some(warpDst) ]
                                m4 == IF m3.before # None
                                      THEN [ detectDartLowest(m3, m3.after[1], m3.before[1], outcome)
                                               EXCEPT !.info.detect = TRUE, !.info.hadBefore = TRUE ]
                                      ELSE [ m3 EXCEPT !.before = Some(warpDst) ]
                            IN [ m4 EXCEPT !.prev = Some(warpDst) ]
               ELSE [ m1 EXCEPT !.prev = Some(warpDst) ]
          ELSE [ m1 EXCEPT !.isStill = IF c.isStill THEN FALSE ELSE @,
                           !.prev = Some(warpDst) ]
     ELSE [ m1 EXCEPT !.isStill = FALSE,
                      !.before = IF @ = None THEN Some(warpDst) ELSE @,
                      !.prev = Some(warpDst) ]

\* "NOT CALIBRATED & NOT CALIBRATING" of the lowest-point variant: the post-throw
\* Mat is deleted but the ref keeps pointing at it
UncalibratedLowest(m, c) ==
  LET m1 == [ m EXCEPT !.isStill = IF c.isStill THEN FALSE ELSE @,
                       !.prev = None, !.before = None ]
  IN IF DeleteThrows(m1.after) THEN Caught(m1)
     ELSE [ m1 EXCEPT !.after = IF @ = None THEN None
                                ELSE Some([ @[1] EXCEPT !.live = FALSE ]),
                      !.detectedTip = IF c.detectedTip THEN FALSE ELSE @ ]

processFrameLowest(c, outcome) ==
  LET m0 == [ Cur EXCEPT !.sched = FALSE, !.raf = Tail(@) ]
  IN IF ~c.cvLoaded \/ ~c.isConnected \/ c.isCalibrating
        \/ imgPending # None \/ imgCur = None
     THEN [ m0 EXCEPT !.info = [ Info(c, "exit") EXCEPT !.src = None ] ]
     ELSE IF now - m0.lastFrame < ThrottleMs
     THEN [ m0 EXCEPT !.raf = Append(@, processFrameRef), !.sched = TRUE,
                      !.info = [ Info(c, "throttled") EXCEPT !.src = None ] ]
     ELSE
       LET src == imgCur[1]
           branch == IF c.calibrationData # None THEN "warp" ELSE "uncalibrated"
           m1 == [ m0 EXCEPT !.lastFrame = now, !.info = Info(c, branch) ]
       IN IF branch = "warp"
          THEN IF MatFromArrayThrows(c.calibrationData[1])
               THEN Caught(m1)
               ELSE WarpBranchLowest(m1, c, src, outcome)
          ELSE UncalibratedLowest(m1, c)

\* The mean differences of the hysteresis scenario, in tenths: three quiet
\* observations, one active, two quiet.
HysteresisScript == << 0, 0, 0, 200, 0, 0 >>

\* script counts the observations of a run in which every pass that rectified a
\* frame ran outside cooldown and (but for the first pass) observed the next
\* mean difference of HysteresisScript
Follow(k, info) ==
  IF info.branch # "warp" THEN k
  ELSE IF k < 0 \/ info.cooldown \/ info.thrown THEN -1
  ELSE IF info.obs = None THEN (IF k = 0 THEN 0 ELSE -1)
  ELSE IF k < Len(HysteresisScript) /\ info.obs[1] = HysteresisScript[k + 1]
       THEN k + 1 ELSE -1

\* inTurn counts the frames of a run in which every pass that rectified a frame
\* took the frame after the one the pass before it took (no frame was replaced
\* unprocessed)
InTurn(k, info) ==
  IF info.branch # "warp" THEN k
  ELSE IF k >= 0 /\ ~info.thrown /\ info.src[1].seq = k + 1
       THEN k + 1 ELSE -1

\* requestAnimationFrame fires the scheduled callback
ProcessFrame ==
  /\ rafQueue # << >>
  /\ \E outcome \in Outcomes :
       LET c == Head(rafQueue)
           m == IF variant = "centroid" THEN processFrameCentroid(c, outcome)
                ELSE processFrameLowest(c, outcome)
       IN /\ Commit(m)
          /\ lastPass' = m.info
          /\ script' = Follow(script, m.info)
          /\ inTurn' = InTurn(inTurn, m.info)
  /\ UNCHANGED << appVars, scoreVars, visionVars, variant, cvLoaded, dimensions, rendered, effected, wsVars, imgVars, envVars, lastCloseSeq, latestDecoded >>

\* --------------------------------------------------------------- WebSocket
\* connectWebSocket's "new WebSocket(WS_URL)": the handlers close over the
\* dimensions of the render that created connectWebSocket
OpenSocket(socks, dims) ==
  [ socks EXCEPT ![NewSocketIn(socks)] =
                   [st |-> "connecting", dims |-> dims, inited |-> FALSE] ]

\* ws.close(): a socket that is connecting or open starts closing
CloseSocket(socks, s) ==
  IF s # 0 /\ socks[s].st \in {"connecting", "open"}
  THEN [ socks EXCEPT ![s].st = "closing" ]
  ELSE socks

\* onopen of socket s: the handshake goes out on wsRef.current, whichever
\* socket that is by now; send() throws while that socket is still connecting
WsOpen(s) ==
  /\ sockets[s].st = "connecting"
  /\ LET opened == [ sockets EXCEPT ![s].st = "open" ]
     IN IF opened[wsRef].st = "connecting"
        THEN /\ sockets' = CloseSocket(opened, wsRef)
             /\ error' = "handshake failed"
             /\ UNCHANGED isConnected
        ELSE /\ sockets' = IF opened[wsRef].st = "open"
                           THEN [ opened EXCEPT ![wsRef].inited = TRUE ]
                           ELSE opened
             /\ isConnected' = TRUE
             /\ error' = ""
  /\ UNCHANGED << appVars, scoreVars, visionVars, variant, cvLoaded, isCalibrating, isStill, calibrationData, dimensions,
                  clickedPoints, detectedTip, rendered, effected, refVars, wsRef, imgVars,
                  envVars, storage, obsVars, lastCloseSeq, latestDecoded >>

\* onclose of socket s
WsClose(s) ==
  /\ sockets[s].st \in {"connecting", "open", "closing"}
  /\ sockets' = [ sockets EXCEPT ![s].st = "closed" ]
  /\ isConnected' = FALSE
  /\ lastCloseSeq' = nextSeq
  /\ error' = "stream disconnected"
  /\ UNCHANGED << appVars, scoreVars, visionVars, variant, cvLoaded, isCalibrating, isStill, calibrationData, dimensions,
                  clickedPoints, detectedTip, rendered, effected, refVars, wsRef, imgVars,
                  envVars, storage, obsVars, latestDecoded >>

\* onerror of socket s; the browser closes the socket after it
WsError(s) ==
  /\ sockets[s].st \in {"connecting", "open"}
  /\ sockets' = [ sockets EXCEPT ![s].st = "closing" ]
  /\ isConnected' = FALSE
  /\ lastCloseSeq' = nextSeq
  /\ error' = "connection error"
  /\ UNCHANGED << appVars, scoreVars, visionVars, variant, cvLoaded, isCalibrating, isStill, calibrationData, dimensions,
                  clickedPoints, detectedTip, rendered, effected, refVars, wsRef, imgVars,
                  envVars, storage, obsVars, latestDecoded >>

\* onmessage of socket s with an ArrayBuffer: img.onload is replaced and img.src
\* set, so the frame becomes the <img>'s pending request (a pending request that
\* had not loaded yet is dropped)
WsMessage(s, dim, lvl) ==
  /\ sockets[s].st = "open" /\ sockets[s].inited
  /\ nextSeq <= limits.frames
  /\ imgPending' = Some([ frame |-> [seq |-> nextSeq, dim |-> dim, lvl |-> lvl],
                          dims |-> sockets[s].dims ])
  /\ nextSeq' = nextSeq + 1
  /\ UNCHANGED << appVars, scoreVars, visionVars, variant, reactState, rendered, effected, refVars, wsVars, imgCur, now,
                  calibSeq, limits, storage, obsVars, lastCloseSeq, latestDecoded >>

\* an onload without the processingScheduled guard: every decoded frame asks
\* for a pass of its own
ImgLoadUnguarded ==
  /\ imgPending # None
  /\ LET p == imgPending[1]
     IN /\ imgCur' = Some(p.frame)
        /\ imgPending' = None
        /\ latestDecoded' = p.frame.seq
        /\ dimensions' = IF p.dims.width # p.frame.dim.width
                            \/ p.dims.height # p.frame.dim.height
                         THEN [ width |-> p.frame.dim.width, height |-> p.frame.dim.height,
                                gen |-> dimensions.gen + 1 ]
                         ELSE dimensions
        /\ rafQueue' = Append(rafQueue, processFrameRef)
        /\ processingScheduled' = TRUE
  /\ UNCHANGED << appVars, scoreVars, visionVars, variant, cvLoaded, isConnected, isCalibrating, isStill, calibrationData,
                  error, clickedPoints, detectedTip, rendered, effected, prevWarpedFrameRef,
                  stillFrameBeforeDartRef, stillFrameAfterDartRef, lastDetectionTimeRef,
                  lastFrameTime, wsVars, envVars, storage, obsVars, lastCloseSeq >>

\* an onload that keeps the frame a scheduled pass is waiting for: the frame
\* that arrived first is the one processed
ImgLoadKeepsScheduledFrame ==
  /\ imgPending # None
  /\ LET p == imgPending[1]
     IN /\ imgCur' = IF processingScheduled /\ imgCur # None THEN imgCur ELSE Some(p.frame)
        /\ imgPending' = None
        /\ latestDecoded' = p.frame.seq
        /\ dimensions' = IF p.dims.width # p.frame.dim.width
                            \/ p.dims.height # p.frame.dim.height
                         THEN [ width |-> p.frame.dim.width, height |-> p.frame.dim.height,
                                gen |-> dimensions.gen + 1 ]
                         ELSE dimensions
        /\ IF ~processingScheduled
           THEN /\ rafQueue' = Append(rafQueue, processFrameRef)
                /\ processingScheduled' = TRUE
           ELSE UNCHANGED << rafQueue, processingScheduled >>
  /\ UNCHANGED << appVars, scoreVars, visionVars, variant, cvLoaded, isConnected, isCalibrating, isStill, calibrationData,
                  error, clickedPoints, detectedTip, rendered, effected, prevWarpedFrameRef,
                  stillFrameBeforeDartRef, stillFrameAfterDartRef, lastDetectionTimeRef,
                  lastFrameTime, wsVars, envVars, storage, obsVars, lastCloseSeq >>

\* img.onload: the pending request becomes the current one
ImgLoad ==
  /\ imgPending # None
  /\ LET p == imgPending[1]
     IN /\ imgCur' = Some(p.frame)
        /\ imgPending' = None
        /\ latestDecoded' = p.frame.seq
        /\ dimensions' = IF p.dims.width # p.frame.dim.width
                            \/ p.dims.height # p.frame.dim.height
                         THEN [ width |-> p.frame.dim.width, height |-> p.frame.dim.height,
                                gen |-> dimensions.gen + 1 ]
                         ELSE dimensions
        /\ IF ~processingScheduled
           THEN /\ rafQueue' = Append(rafQueue, processFrameRef)
                /\ processingScheduled' = TRUE
           ELSE UNCHANGED << rafQueue, processingScheduled >>
  /\ UNCHANGED << appVars, scoreVars, visionVars, variant, cvLoaded, isConnected, isCalibrating, isStill, calibrationData,
                  error, clickedPoints, detectedTip, rendered, effected, prevWarpedFrameRef,
                  stillFrameBeforeDartRef, stillFrameAfterDartRef, lastDetectionTimeRef,
                  lastFrameTime, wsVars, envVars, storage, obsVars, lastCloseSeq >>

\* an onerror that asks for a processing pass as onload does
ImgErrorSchedulesPass ==
  /\ imgPending # None
  /\ imgCur' = None
  /\ imgPending' = None
  /\ IF ~processingScheduled
     THEN /\ rafQueue' = Append(rafQueue, processFrameRef)
          /\ processingScheduled' = TRUE
     ELSE UNCHANGED << rafQueue, processingScheduled >>
  /\ UNCHANGED << appVars, scoreVars, visionVars, variant, reactState, rendered, effected, prevWarpedFrameRef,
                  stillFrameBeforeDartRef, stillFrameAfterDartRef, lastDetectionTimeRef,
                  lastFrameTime, wsVars, envVars, storage, obsVars, lastCloseSeq,
                  latestDecoded >>

\* img.onerror: the buffer does not decode and the <img> is left broken
ImgError ==
  /\ imgPending # None
  /\ imgCur' = None
  /\ imgPending' = None
  /\ UNCHANGED << appVars, scoreVars, visionVars, variant, reactState, rendered, effected, refVars, wsVars, envVars, storage, obsVars, lastCloseSeq, latestDecoded >>

\* performance.now() advances
Tick ==
  /\ now + TimeStep <= limits.now
  /\ now' = now + TimeStep
  /\ UNCHANGED << appVars, scoreVars, visionVars, variant, reactState, rendered, effected, refVars, wsVars, imgVars, nextSeq,
                  calibSeq, limits, storage, obsVars, lastCloseSeq, latestDecoded >>

\* ----------------------------------------------------------------- startup
\* the checkCv interval finds OpenCV loaded and reads the stored calibration
CvLoad ==
  /\ ~cvLoaded
  /\ cvLoaded' = TRUE
  /\ IF storage # None
     THEN IF Parses(storage[1]) /\ BasicValidation(storage[1])
          THEN calibrationData' = storage /\ UNCHANGED storage
          ELSE storage' = None /\ UNCHANGED calibrationData
     ELSE UNCHANGED << calibrationData, storage >>
  /\ UNCHANGED << appVars, scoreVars, visionVars, variant, isConnected, isCalibrating, isStill, error, dimensions,
                  clickedPoints, detectedTip, rendered, effected, refVars, wsVars, imgVars,
                  envVars, obsVars, lastCloseSeq, latestDecoded >>

\* ------------------------------------------------------------------ render
\* a calculateAndStoreHomography that drops the record it was meant to replace
\* when the solve fails
calculateAndStoreHomographyDropsRecord(m, c, solved) ==
  IF ~c.cvLoaded \/ c.clickedPoints # CALIBRATION_POINTS_REQUIRED THEN m
  ELSE CASE solved = "matrix" ->
              LET newCalibration == [ shape |-> "ok",
                                      dims |-> [width |-> c.dimensions.width,
                                                height |-> c.dimensions.height],
                                      H |-> calibSeq + 1 ]
              IN [ m EXCEPT !.calibrationData = Some(newCalibration),
                            !.storage = Some(newCalibration),
                            !.isCalibrating = FALSE, !.clickedPoints = 0, !.error = "" ]
         [] solved = "empty" -> [ m EXCEPT !.error = "calibration failed",
                                           !.calibrationData = None, !.storage = None ]
         [] OTHER -> [ m EXCEPT !.error = "calibration error",
                                !.calibrationData = None, !.storage = None ]

\* calculateAndStoreHomography; solved is what cv.findHomography yields for the
\* clicked points
calculateAndStoreHomography(m, c, solved) ==
  IF ~c.cvLoaded \/ c.clickedPoints # CALIBRATION_POINTS_REQUIRED THEN m
  ELSE CASE solved = "matrix" ->
              LET newCalibration == [ shape |-> "ok",
                                      dims |-> [width |-> c.dimensions.width,
                                                height |-> c.dimensions.height],
                                      H |-> calibSeq + 1 ]
              IN [ m EXCEPT !.calibrationData = Some(newCalibration),
                            !.storage = Some(newCalibration),
                            !.isCalibrating = FALSE, !.clickedPoints = 0, !.error = "" ]
         [] solved = "empty" -> [ m EXCEPT !.error = "calibration failed" ]
         [] OTHER -> [ m EXCEPT !.error = "calibration error" ]

SolveResults == {"matrix", "empty", "throws"}

\* the state a render and its effects work on: the handler's record, the
\* sockets and the count of solves
Work(m) == [ m |-> m, sockets |-> sockets, wsRef |-> wsRef, calibSeq |-> calibSeq ]

\* the effects of the render c whose dependencies changed since the render
\* old, the last one whose effects ran: the connect/disconnect effect (keyed on
\* connectWebSocket, which is rebuilt when dimensions changes) and the effect
\* that starts the solve once 4 points are clicked
Reconnects(old, c) == old.dimensions # c.dimensions
Solves(old, c) ==
  /\ c.isCalibrating
  /\ c.clickedPoints = CALIBRATION_POINTS_REQUIRED
  /\ ( old.isCalibrating # c.isCalibrating
       \/ old.clickedPoints # c.clickedPoints
       \/ old.cvLoaded # c.cvLoaded
       \/ old.dimensions # c.dimensions )

\* the effects can run within the bounds
EffectsEnabled(w, old, c, solved) ==
  /\ Reconnects(old, c) => FreeSocketsIn(w.sockets) # {}
  /\ solved = "matrix" => w.calibSeq < MaxCalib
  /\ ~Solves(old, c) => solved = "empty"

\* what the effects of the render c leave
Effects(w, old, c, solved) ==
  LET reconnect == Reconnects(old, c)
      solve == Solves(old, c)
      closed == CloseSocket(w.sockets, w.wsRef)
      m0 == IF reconnect THEN [ w.m EXCEPT !.error = "" ] ELSE w.m
      m1 == IF solve THEN calculateAndStoreHomography(m0, c, solved) ELSE m0
  IN  [ m |-> m1,
        sockets |-> IF reconnect THEN OpenSocket(closed, c.dimensions) ELSE w.sockets,
        wsRef |-> IF reconnect THEN NewSocketIn(closed) ELSE w.wsRef,
        calibSeq |-> IF solve /\ solved = "matrix" /\ c.cvLoaded
                     THEN w.calibSeq + 1 ELSE w.calibSeq ]

\* the work w becomes the next state
CommitWork(w) ==
  /\ Commit(w.m)
  /\ sockets' = w.sockets /\ wsRef' = w.wsRef /\ calibSeq' = w.calibSeq

\* The render a click ends with, w being what the click's handler left: React
\* first runs the effects still waiting from the render before, then commits
\* a render of the state and runs its effects.
FlushWork(w) ==
  \E waiting, solved \in SolveResults :
    /\ effected = rendered => waiting = "empty"
    /\ effected # rendered => EffectsEnabled(w, effected, rendered, waiting)
    /\ LET w1 == IF effected # rendered
                 THEN Effects(w, effected, rendered, waiting) ELSE w
           c == ClosureOf(w1.m)
       IN /\ EffectsEnabled(w1, rendered, c, solved)
          /\ rendered' = c /\ effected' = c
          /\ CommitWork(Effects(w1, rendered, c, solved))

Flush(m) == FlushWork(Work(m))

\* React commits a render scheduled by updates made outside a click handler (a
\* processing pass, a WebSocket or <img> callback, an effect); it first runs
\* the effects still waiting from the render before, and leaves its own
\* effects to RunEffects
Render ==
  /\ rendered # Closure \/ effected # rendered
  /\ \E waiting \in SolveResults :
       /\ effected = rendered => waiting = "empty"
       /\ effected # rendered => EffectsEnabled(Work(Cur), effected, rendered, waiting)
       /\ LET w1 == IF effected # rendered
                    THEN Effects(Work(Cur), effected, rendered, waiting)
                    ELSE Work(Cur)
          IN /\ ClosureOf(w1.m) # rendered
             /\ rendered' = ClosureOf(w1.m) /\ effected' = rendered
             /\ CommitWork(w1)
  /\ UNCHANGED << appVars, scoreVars, visionVars, variant, cvLoaded, dimensions, imgVars, now, nextSeq, limits,
                  lastPass, script, inTurn, lastCloseSeq, latestDecoded >>

\* the effects of the last render run, after its commit
RunEffects ==
  /\ effected # rendered
  /\ \E solved \in SolveResults :
       /\ EffectsEnabled(Work(Cur), effected, rendered, solved)
       /\ CommitWork(Effects(Work(Cur), effected, rendered, solved))
  /\ effected' = rendered
  /\ UNCHANGED << appVars, scoreVars, visionVars, variant, cvLoaded, dimensions, rendered, imgVars, now, nextSeq,
                  limits, lastPass, script, inTurn, lastCloseSeq, latestDecoded >>

\* ------------------------------------------------------ operator's controls
\* The updates a click handler makes are rendered before the click event
\* returns; the render is part of the handler's step.

\* "Calibrate" / "Re-calibrate" button (shown when not calibrating, enabled
\* when connected and OpenCV is loaded)
StartCalibration ==
  /\ rendered.cvLoaded /\ rendered.isConnected /\ ~rendered.isCalibrating
  /\ Flush([ Cur EXCEPT !.clickedPoints = 0, !.isCalibrating = TRUE, !.error = "" ])
  /\ UNCHANGED << appVars, scoreVars, visionVars, variant, cvLoaded, dimensions, imgVars, now, nextSeq, limits,
                  lastPass, script, inTurn, lastCloseSeq, latestDecoded >>

\* "Cancel Calibration" button (shown while calibrating)
CancelCalibration ==
  /\ rendered.isCalibrating
  /\ Flush([ Cur EXCEPT !.isCalibrating = FALSE, !.clickedPoints = 0, !.error = "" ])
  /\ UNCHANGED << appVars, scoreVars, visionVars, variant, cvLoaded, dimensions, imgVars, now, nextSeq, limits,
                  lastPass, script, inTurn, lastCloseSeq, latestDecoded >>

\* "Reset" button (shown when calibrated and not calibrating)
ResetCalibration ==
  /\ rendered.calibrationData # None /\ ~rendered.isCalibrating
  /\ Flush(resetCalibration(Cur))
  /\ UNCHANGED << appVars, scoreVars, visionVars, variant, cvLoaded, dimensions, imgVars, now, nextSeq, limits,
                  lastPass, script, inTurn, lastCloseSeq, latestDecoded >>

\* handleCanvasClick: the guard reads the render's closure, the append is a
\* functional update of the state
HandleCanvasClick ==
  /\ rendered.isCalibrating
  /\ rendered.clickedPoints < CALIBRATION_POINTS_REQUIRED
  /\ clickedPoints < MaxPoints
  /\ Flush([ Cur EXCEPT !.clickedPoints = @ + 1 ])
  /\ UNCHANGED << appVars, scoreVars, visionVars, variant, cvLoaded, dimensions, imgVars, now, nextSeq, limits,
                  lastPass, script, inTurn, lastCloseSeq, latestDecoded >>

\* "Reconnect Stream" button (enabled when disconnected and OpenCV is loaded):
\* connectWebSocket of the last render, which returns at once when the socket
\* is open
ReconnectStream ==
  /\ rendered.cvLoaded /\ ~rendered.isConnected
  /\ sockets[wsRef].st # "open"
  /\ FreeSockets # {}
  /\ FlushWork([ Work([ Cur EXCEPT !.error = "" ]) EXCEPT
                   !.sockets = OpenSocket(sockets, rendered.dimensions),
                   !.wsRef = NewSocket ])
  /\ UNCHANGED << appVars, scoreVars, visionVars, variant, cvLoaded, dimensions, imgVars, now, nextSeq, limits,
                  lastPass, script, inTurn, lastCloseSeq, latestDecoded >>

\* ------------------------------------------------------------ specification
Next ==
  \/ \E s \in 1..MaxSockets : WsOpen(s)
  \/ \E s \in 1..MaxSockets : WsClose(s)
  \/ \E s \in 1..MaxSockets : WsError(s)
  \/ \E s \in 1..MaxSockets, dim \in Dims, lvl \in Levels : WsMessage(s, dim, lvl)
  \/ ImgLoad
  \/ ImgError
  \/ ProcessFrame
  \/ Render
  \/ RunEffects
  \/ CvLoad
  \/ StartCalibration
  \/ CancelCalibration
  \/ ResetCalibration
  \/ HandleCanvasClick
  \/ ReconnectStream
  \/ Tick

Spec == Init /\ [][Next]_vars

\* A running session at performance.now() = t: OpenCV has loaded (and read the
\* stored calibration), the first socket is open and has sent its handshake, and
\* the component has rendered.
InitSessionAt(t) ==
  /\ variant \in Variants
  /\ cvLoaded = TRUE /\ isConnected = TRUE /\ isCalibrating = FALSE
  /\ isStill = FALSE /\ error = ""
  /\ calibrationData = storage
  /\ dimensions = [width |-> 640, height |-> 480, gen |-> 0]
  /\ clickedPoints = 0 /\ detectedTip = FALSE
  /\ rendered = Closure /\ effected = Closure
  /\ processingScheduled = FALSE /\ rafQueue = << >>
  /\ prevWarpedFrameRef = None /\ stillFrameBeforeDartRef = None
  /\ stillFrameAfterDartRef = None
  /\ lastDetectionTimeRef = 0 /\ lastFrameTime = 0
  /\ wsRef = 1
  /\ sockets = [ s \in 1..MaxSockets |->
                   IF s = 1 THEN [st |-> "open", dims |-> dimensions, inited |-> TRUE]
                   ELSE NoSocket ]
  /\ imgCur = None /\ imgPending = None
  /\ now = t /\ nextSeq = 1 /\ calibSeq = 0
  /\ detectCount = 0 /\ lastDetect = None /\ delivered = 0
  /\ lastPass = NoPass /\ script = 0 /\ inTurn = 0
  /\ lastCloseSeq = 0 /\ latestDecoded = 0

\* a running session in which the first second after page load is over
InitSession == InitSessionAt(3 * TimeStep)

StoredDefault == [shape |-> "ok", dims |-> DefaultDims, H |-> 0]

\* SpecRun: a calibrated, connected session whose camera shows the scene of the
\* hysteresis scenario: the full-frame level of frame k + 1 differs from that of
\* frame k by HysteresisScript[k] (the scene rests, changes once for good when
\* the dart lands, and rests again)
RECURSIVE SceneLevel(_)
SceneLevel(k) ==
  IF k <= 1 THEN 0
  ELSE IF k - 1 <= Len(HysteresisScript)
       THEN Abs(SceneLevel(k - 1) - HysteresisScript[k - 1])
       ELSE SceneLevel(k - 1)

InitRun ==
  /\ NoScoringCall
  /\ storage = Some(StoredDefault)
  /\ InitSession
  /\ limits = [frames |-> MaxRunFrames, now |-> (3 + MaxRunTicks) * TimeStep]

NextRun ==
  \/ WsMessage(1, DefaultDims, SceneLevel(nextSeq))
  \/ ImgLoad
  \/ ProcessFrame
  \/ Render
  \/ RunEffects
  \/ Tick

SpecRun == InitRun /\ [][NextRun]_vars

\* SpecFlow: a calibrated, connected session in which frames of any content
\* arrive, decode or fail to decode, and are processed
InitFlow ==
  /\ NoScoringCall
  /\ storage = Some(StoredDefault)
  /\ InitSession
  /\ limits = [frames |-> MaxFlowFrames, now |-> (3 + MaxFlowTicks) * TimeStep]

NextFlow ==
  \/ \E lvl \in Levels : WsMessage(1, DefaultDims, lvl)
  \/ ImgLoad
  \/ ImgError
  \/ ProcessFrame
  \/ Render
  \/ RunEffects
  \/ Tick

SpecFlow == InitFlow /\ [][NextFlow]_vars

\* SpecReset: a connected session, calibrated or not, in which frames of any
\* content arrive and the operator may reset the calibration
InitReset ==
  /\ NoScoringCall
  /\ storage \in {None, Some(StoredDefault)}
  /\ InitSession
  /\ limits = [frames |-> MaxFrames, now |-> (3 + MaxTicks) * TimeStep]

NextReset ==
  \/ \E lvl \in Levels : WsMessage(1, DefaultDims, lvl)
  \/ ImgLoad
  \/ ProcessFrame
  \/ Render
  \/ RunEffects
  \/ ResetCalibration
  \/ Tick

SpecReset == InitReset /\ [][NextReset]_vars

\* SpecCal: a connected session of a camera with a fixed frame size that shows a
\* scene at rest, with the operator's calibration controls; the stored
\* calibration, if any, was made at this frame size or at another one
InitCal ==
  /\ NoScoringCall
  /\ storage \in {None} \cup { Some([shape |-> "ok", dims |-> d, H |-> 0]) : d \in Dims }
  /\ InitSession
  /\ limits = [frames |-> MaxCalFrames, now |-> (3 + MaxCalTicks) * TimeStep]

NextCal ==
  \/ WsMessage(1, DefaultDims, 0)
  \/ ImgLoad
  \/ ProcessFrame
  \/ Render
  \/ RunEffects
  \/ StartCalibration
  \/ CancelCalibration
  \/ ResetCalibration
  \/ HandleCanvasClick
  \/ Tick

SpecCal == InitCal /\ [][NextCal]_vars

\* SpecConn: a calibrated session watching a scene at rest, whose frame size may
\* change and whose stream disconnects and reconnects, by the operator or
\* because the frame size changed
InitConn ==
  /\ NoScoringCall
  /\ storage = Some(StoredDefault)
  /\ InitSession
  /\ limits = [frames |-> MaxConnFrames, now |-> (3 + MaxTicks) * TimeStep]

NextConn ==
  \/ \E s \in 1..MaxSockets : WsOpen(s)
  \/ \E s \in 1..MaxSockets : WsClose(s)
  \/ \E s \in 1..MaxSockets : WsError(s)
  \/ \E s \in 1..MaxSockets, dim \in Dims : WsMessage(s, dim, 0)
  \/ ImgLoad
  \/ ProcessFrame
  \/ Render
  \/ RunEffects
  \/ ReconnectStream
  \/ Tick

SpecConn == InitConn /\ [][NextConn]_vars

\* SpecStart: a calibrated, connected session that is running half a second
\* after page load, so its first passes fall into the second in which
\* performance.now() - lastDetectionTimeRef.current (still 0) is below the cooldown
InitStart ==
  /\ NoScoringCall
  /\ storage = Some(StoredDefault)
  /\ InitSessionAt(TimeStep)
  /\ limits = [frames |-> MaxStartFrames, now |-> (1 + MaxStartTicks) * TimeStep]

NextStart ==
  \/ \E lvl \in Levels : WsMessage(1, DefaultDims, lvl)
  \/ ImgLoad
  \/ ProcessFrame
  \/ Render
  \/ RunEffects
  \/ Tick

SpecStart == InitStart /\ [][NextStart]_vars

\* SpecThrow: a calibrated, connected session of the centroid variant whose
\* camera sends ten frames of the scene of SpecRun: frames 1-4 show the empty
\* board, frames 5-10 the board with the dart in it
InitThrow ==
  /\ NoScoringCall
  /\ storage = Some(StoredDefault)
  /\ InitSession
  /\ variant = "centroid"
  /\ limits = [frames |-> MaxThrowFrames, now |-> (3 + MaxThrowTicks) * TimeStep]

NextThrow ==
  \/ WsMessage(1, DefaultDims, SceneLevel(nextSeq))
  \/ ImgLoad
  \/ ProcessFrame
  \/ Render
  \/ RunEffects
  \/ Tick

SpecThrow == InitThrow /\ [][NextThrow]_vars

\* SpecBoot: the component from its mount on: OpenCV loads and the stored entry
\* is read, the socket opens, one frame of the camera arrives, and the operator
\* uses the calibration controls
InitBoot ==
  /\ NoScoringCall
  /\ InitCommon
  /\ storage \in {None} \cup { Some(r) : r \in StoredRecords }
  /\ limits = [frames |-> MaxBootFrames, now |-> MaxTicks * TimeStep]

NextBoot ==
  \/ CvLoad
  \/ \E s \in 1..MaxSockets : WsOpen(s)
  \/ WsMessage(1, DefaultDims, 0)
  \/ ImgLoad
  \/ ProcessFrame
  \/ Render
  \/ RunEffects
  \/ StartCalibration
  \/ CancelCalibration
  \/ ResetCalibration
  \/ HandleCanvasClick
  \/ Tick

SpecBoot == InitBoot /\ [][NextBoot]_vars

\* ------------------------------------------------------------ score mapping
\* segmentScores and radii are const bindings of an array and an object: the
\* bindings are fixed, the contents are state that getScoreFromCoords reads at
\* every call and that no statement of the program assigns
boardCenterX == CALIBRATION_TARGET_SIZE \div 2
boardCenterY == CALIBRATION_TARGET_SIZE \div 2

\* distanceFromCenter = Math.sqrt(dx * dx + dy * dy) compared with a ring
\* radius: for integer dx, dy and r the comparison of the square roots is the
\* comparison of the squares
DistanceAtMost(dx, dy, r) == dx * dx + dy * dy <= r * r
DistanceAtLeast(dx, dy, r) == dx * dx + dy * dy >= r * r

\* The angle computation. With theta the angle of Math.atan2(-dy, dx) brought
\* into 0..360 degrees, segmentIndex is floor(((theta + 90) % 360 + 9) % 360 / 18),
\* which is k exactly when theta lies in [18k - 99, 18k - 81) modulo 360.
\* SegmentBoundX[k + 1], SegmentBoundY[k + 1] is the direction of angle 18k - 99
\* degrees, in millionths; a point on a boundary (only the diagonals hold
\* pixels on one) belongs to the segment that starts there, as the floating
\* point evaluation gives it.
SegmentBoundX ==
  << -156434, 156434, 453990, 707107, 891007, 987688, 987688, 891007, 707107, 453990,
     156434, -156434, -453990, -707107, -891007, -987688, -987688, -891007, -707107,
     -453990 >>
SegmentBoundY ==
  << -987688, -987688, -891007, -707107, -453990, -156434, 156434, 453990, 707107, 891007,
     987688, 987688, 891007, 707107, 453990, 156434, -156434, -453990, -707107,
     -891007 >>

segmentIndex(dx, dy) ==
  CHOOSE k \in 0..19 :
    LET x == dx
        y == -dy
        lo == k + 1
        hi == ((k + 1) % 20) + 1
    IN  /\ SegmentBoundX[lo] * y - SegmentBoundY[lo] * x >= 0
        /\ x * SegmentBoundY[hi] - y * SegmentBoundX[hi] > 0

baseScore(dx, dy) == segmentScores[segmentIndex(dx, dy) + 1]

\* a getScoreFromCoords whose double ring starts above radii.innerDouble and
\* whose scoring area ends below radii.outerDouble
getScoreFromCoordsOpenDouble(pt) ==
  IF pt = None THEN [score |-> 0, confidence |-> 0]
  ELSE LET dx == pt[1].x - boardCenterX
           dy == pt[1].y - boardCenterY
       IN  IF DistanceAtMost(dx, dy, radii.doubleBull)
             THEN [score |-> 50, confidence |-> 1]
           ELSE IF DistanceAtMost(dx, dy, radii.singleBull)
             THEN [score |-> 25, confidence |-> 1]
           ELSE IF DistanceAtLeast(dx, dy, radii.outerDouble)
             THEN [score |-> 0, confidence |-> 1]
           ELSE IF ~DistanceAtMost(dx, dy, radii.innerDouble)
             THEN [score |-> baseScore(dx, dy) * 2, confidence |-> 1]
           ELSE IF /\ DistanceAtLeast(dx, dy, radii.innerTriple)
                   /\ DistanceAtMost(dx, dy, radii.outerTriple)
             THEN [score |-> baseScore(dx, dy) * 3, confidence |-> 1]
           ELSE [score |-> baseScore(dx, dy), confidence |-> 1]

\* getScoreFromCoords(point); confidence 1.0 is written 1
getScoreFromCoords(pt) ==
  IF pt = None THEN [score |-> 0, confidence |-> 0]
  ELSE LET dx == pt[1].x - boardCenterX
           dy == pt[1].y - boardCenterY
       IN  IF DistanceAtMost(dx, dy, radii.doubleBull)
             THEN [score |-> 50, confidence |-> 1]
           ELSE IF DistanceAtMost(dx, dy, radii.singleBull)
             THEN [score |-> 25, confidence |-> 1]
           ELSE IF ~DistanceAtMost(dx, dy, radii.outerDouble)
             THEN [score |-> 0, confidence |-> 1]
           ELSE IF DistanceAtLeast(dx, dy, radii.innerDouble)
             THEN [score |-> baseScore(dx, dy) * 2, confidence |-> 1]
           ELSE IF /\ DistanceAtLeast(dx, dy, radii.innerTriple)
                   /\ DistanceAtMost(dx, dy, radii.outerTriple)
             THEN [score |-> baseScore(dx, dy) * 3, confidence |-> 1]
           ELSE [score |-> baseScore(dx, dy), confidence |-> 1]

\* pixel coordinates of the canonical board image
CanonicalCoords == 0..(CALIBRATION_TARGET_SIZE - 1)

\* SpecScore: one call of getScoreFromCoords on any pixel of the canonical
\* board, or on null
InitScore ==
  /\ InitCommon
  /\ variant = "centroid"
  /\ storage = None
  /\ limits = [frames |-> 0, now |-> 0]
  /\ \/ point = None
     \/ \E px \in CanonicalCoords, py \in CanonicalCoords :
          point = Some([x |-> px, y |-> py])
  /\ scoreResult = None /\ scoreSeen = << >>
  /\ ScoringModuleLoaded /\ NoVisionCall

ScoreCall ==
  /\ scoreResult = None
  /\ scoreResult' = Some(getScoreFromCoords(point))
  /\ UNCHANGED << appVars, point, scoreSeen, segmentScores, radii, visionVars, variant, reactState, rendered, effected, refVars, wsVars, imgVars,
                  envVars, storage, obsVars, lastCloseSeq, latestDecoded >>

NextScore == ScoreCall

SpecScore == InitScore /\ [][NextScore]_vars

\* SpecPure: a calibrated, connected session of the centroid variant in which
\* frames arrive and are processed, and in which getScoreFromCoords is called
\* at any moment, any number of times up to MaxScoreCalls per argument
ScoredPoints ==
  { Some([x |-> 250, y |-> 250]), Some([x |-> 379, y |-> 422]) }

CallsOf(arg) == IF arg \in DOMAIN scoreSeen THEN scoreSeen[arg].calls ELSE 0

InitPure ==
  /\ NoScoringCall
  /\ storage = Some(StoredDefault)
  /\ InitSession
  /\ variant = "centroid"
  /\ limits = [frames |-> MaxPureFrames, now |-> (3 + MaxPureTicks) * TimeStep]

\* a score mapping with hidden state: every call draws the edge of the scoring
\* area in by one pixel
ScoreCallOnTuningRadii(arg) ==
  /\ CallsOf(arg) < MaxScoreCalls
  /\ point' = arg
  /\ scoreResult' = Some(getScoreFromCoords(arg))
  /\ scoreSeen' = [ a \in DOMAIN scoreSeen \cup {arg} |->
                      IF a # arg THEN scoreSeen[a]
                      ELSE IF arg \in DOMAIN scoreSeen
                           THEN [ scoreSeen[arg] EXCEPT !.calls = @ + 1 ]
                           ELSE [ first |-> getScoreFromCoords(arg), calls |-> 1 ] ]
  /\ radii' = [ radii EXCEPT !.outerDouble = @ - 1 ]
  /\ UNCHANGED << segmentScores, appVars, visionVars, variant, reactState, rendered, effected, refVars, wsVars, imgVars,
                  envVars, storage, obsVars, lastCloseSeq, latestDecoded >>

\* a call of getScoreFromCoords(arg): it reads segmentScores and radii as they
\* are at the call and assigns nothing
ScoreCallOn(arg) ==
  /\ CallsOf(arg) < MaxScoreCalls
  /\ point' = arg
  /\ scoreResult' = Some(getScoreFromCoords(arg))
  /\ scoreSeen' = [ a \in DOMAIN scoreSeen \cup {arg} |->
                      IF a # arg THEN scoreSeen[a]
                      ELSE IF arg \in DOMAIN scoreSeen
                           THEN [ scoreSeen[arg] EXCEPT !.calls = @ + 1 ]
                           ELSE [ first |-> getScoreFromCoords(arg), calls |-> 1 ] ]
  /\ UNCHANGED << segmentScores, radii, appVars, visionVars, variant, reactState, rendered, effected, refVars, wsVars, imgVars,
                  envVars, storage, obsVars, lastCloseSeq, latestDecoded >>

NextPure ==
  \/ \E lvl \in Levels : WsMessage(1, DefaultDims, lvl)
  \/ ImgLoad
  \/ ProcessFrame
  \/ Render
  \/ RunEffects
  \/ Tick
  \/ \E arg \in ScoredPoints : ScoreCallOn(arg)

SpecPure == InitPure /\ [][NextPure]_vars

\* ----------------------------------------------------------- contour filter
\* detectDart walks the contours of the difference mask once and keeps the index
\* of one of them (-1: none).  The centroid variant keeps the largest contour
\* whose area lies strictly between the two limits; the lowest-point variant
\* keeps the largest contour above the noise limit.

\* the loop without the upper area limit
RECURSIVE largestContourNoUpperLimit(_, _, _, _)
largestContourNoUpperLimit(areas, i, maxArea, largestContourIndex) ==
  IF i >= Len(areas) THEN largestContourIndex
  ELSE LET area == areas[i + 1] IN
       IF area > DartAreaMin /\ area > maxArea
       THEN largestContourNoUpperLimit(areas, i + 1, area, i)
       ELSE largestContourNoUpperLimit(areas, i + 1, maxArea, largestContourIndex)

RECURSIVE largestContourCentroid(_, _, _, _)
largestContourCentroid(areas, i, maxArea, largestContourIndex) ==
  IF i >= Len(areas) THEN largestContourIndex
  ELSE LET area == areas[i + 1] IN
       IF area > DartAreaMin /\ area < DartAreaMax /\ area > maxArea
       THEN largestContourCentroid(areas, i + 1, area, i)
       ELSE largestContourCentroid(areas, i + 1, maxArea, largestContourIndex)

RECURSIVE largestContourLowest(_, _, _, _)
largestContourLowest(areas, i, maxArea, largestContourIndex) ==
  IF i >= Len(areas) THEN largestContourIndex
  ELSE LET area == areas[i + 1] IN
       IF area > maxArea /\ area > NoiseArea
       THEN largestContourLowest(areas, i + 1, area, i)
       ELSE largestContourLowest(areas, i + 1, maxArea, largestContourIndex)

largestContourIndexOf(v, areas) ==
  IF v = "centroid" THEN largestContourCentroid(areas, 0, 0, -1)
  ELSE largestContourLowest(areas, 0, 0, -1)

InitContour ==
  /\ InitCommon
  /\ storage = None
  /\ limits = [frames |-> 0, now |-> 0]
  /\ point = None /\ scoreResult = None /\ scoreSeen = << >> /\ ScoringModuleLoaded
  /\ \E n \in 0..MaxContours : contourAreas \in [1..n -> ContourAreaValues]
  /\ largestContour = None
  /\ contour = << >> /\ tipResult = None
  /\ AppIdle

FilterCall ==
  /\ largestContour = None
  /\ largestContour' = Some(largestContourIndexOf(variant, contourAreas))
  /\ UNCHANGED << appVars, scoreVars, contourAreas, contour, tipResult, variant, reactState,
                  rendered, effected, refVars, wsVars, imgVars, envVars, storage, obsVars,
                  lastCloseSeq, latestDecoded >>

NextContour == FilterCall

SpecContour == InitContour /\ [][NextContour]_vars

\* -------------------------------------------------------------- findDartTip
\* A contour is the sequence of its points (contour.data32S, two integers per
\* row).  cv.moments(contour, false) integrates over the closed polygon through
\* the points: with a00, a10, a01 the sums below, m00 = |a00| / 2,
\* m10 = +-a10 / 6 and m01 = +-a01 / 6 with the sign of a00, so the centroid is
\* (a10 / (3 a00), a01 / (3 a00)).

Prev(c, i) == IF i = 1 THEN c[Len(c)] ELSE c[i - 1]

Cross(p, q) == p.x * q.y - q.x * p.y

RECURSIVE a00From(_, _)
a00From(c, i) ==
  IF i > Len(c) THEN 0
  ELSE Cross(Prev(c, i), c[i]) + a00From(c, i + 1)

RECURSIVE a10From(_, _)
a10From(c, i) ==
  IF i > Len(c) THEN 0
  ELSE Cross(Prev(c, i), c[i]) * (Prev(c, i).x + c[i].x) + a10From(c, i + 1)

RECURSIVE a01From(_, _)
a01From(c, i) ==
  IF i > Len(c) THEN 0
  ELSE Cross(Prev(c, i), c[i]) * (Prev(c, i).y + c[i].y) + a01From(c, i + 1)

a00(c) == a00From(c, 1)
a10(c) == a10From(c, 1)
a01(c) == a01From(c, 1)

\* distanceSq of p > distanceSq of q, both taken from the centroid of c: the
\* difference of the two squares, multiplied by 3 a00
FurtherFromCentroid(c, p, q) ==
  LET s == (p.x - q.x) * (3 * a00(c) * (p.x + q.x) - 2 * a10(c))
           + (p.y - q.y) * (3 * a00(c) * (p.y + q.y) - 2 * a01(c))
  IN  IF a00(c) > 0 THEN s > 0 ELSE s < 0

\* One step of the loop: the values furthestPoint can have after the point p.
\* distanceSq and maxDistanceSq are doubles computed from a rounded centroid:
\* of two different points at exactly the same distance, rounding decides
\* which one compares greater.
furthestPointStep(c, p, furthestPoint) ==
  IF furthestPoint = None THEN { Some(p) }
  ELSE IF FurtherFromCentroid(c, p, furthestPoint[1]) THEN { Some(p) }
  ELSE IF FurtherFromCentroid(c, furthestPoint[1], p) THEN { furthestPoint }
  ELSE { furthestPoint, Some(p) }

RECURSIVE furthestPointLoop(_, _, _)
furthestPointLoop(c, i, furthestPoints) ==
  IF i > Len(c) THEN furthestPoints
  ELSE furthestPointLoop(c, i + 1,
         UNION { furthestPointStep(c, c[i], f) : f \in furthestPoints })

\* findDartTip without the test of M.m00
findDartTipNoAreaCheck(c) ==
  IF Len(c) = 0 THEN { None }
  ELSE furthestPointLoop(c, 1, { None })

\* the values findDartTip can return for the contour c
findDartTipCentroid(c) ==
  IF Len(c) = 0 THEN { None }
  ELSE IF a00(c) = 0 THEN { None }
  ELSE furthestPointLoop(c, 1, { None })

RECURSIVE highestYLoop(_, _, _)
highestYLoop(c, i, tip) ==
  IF i > Len(c) THEN tip
  ELSE IF c[i].y > tip.y THEN highestYLoop(c, i + 1, c[i])
       ELSE highestYLoop(c, i + 1, tip)

findDartTipLowest(c) ==
  IF Len(c) = 0 THEN { None }
  ELSE LET tip == highestYLoop(c, 1, [x |-> 0, y |-> -1])
       IN  IF tip.y # -1 THEN { Some(tip) } ELSE { None }

findDartTip(v, c) ==
  IF v = "centroid" THEN findDartTipCentroid(c) ELSE findDartTipLowest(c)

InitTip ==
  /\ InitCommon
  /\ storage = None
  /\ limits = [frames |-> 0, now |-> 0]
  /\ point = None /\ scoreResult = None /\ scoreSeen = << >> /\ ScoringModuleLoaded
  /\ contourAreas = << >> /\ largestContour = None
  /\ \E n \in 0..MaxContourPoints :
       contour \in [1..n -> [x : ContourCoords, y : ContourCoords]]
  /\ tipResult = None
  /\ AppIdle

TipCall ==
  /\ tipResult = None
  /\ \E tip \in findDartTip(variant, contour) : tipResult' = Some(tip)
  /\ UNCHANGED << appVars, scoreVars, contourAreas, largestContour, contour, variant,
                  reactState, rendered, effected, refVars, wsVars, imgVars, envVars, storage,
                  obsVars, lastCloseSeq, latestDecoded >>

NextTip == TipCall

SpecTip == InitTip /\ [][NextTip]_vars

\* ---------------------------------------------------------------- the relay
\* camera-stream-server: sockets connect, identify themselves with a first
\* message and are then the camera or a client.  A connection's role is the
\* set of listeners it has: "new" has the handshake listener of ws.once,
\* "camera" and "client" the listeners their branch installs, "rejected" none.
\* A connection's st is "open" while its readyState is 1; its readyState is 2
\* in "closing" (the relay called ws.close and the peer's close frame is still
\* to come), in "closeReceived" (the peer's close frame has arrived, the
\* connection has not ended yet) and in "failed"; code is the code of the
\* relay's own ws.close call.  A message is what JSON.parse makes of it.
RelayMessages == {"camera-init", "client-init", "other-json", "frame"}

\* a message that is not JSON text, such as a binary frame
NotJSON(msg) == msg = "frame"

\* ws.close(code) on connection s: an open connection starts closing
CloseConn(cs, s, code) ==
  IF cs[s].st = "open" THEN [ cs EXCEPT ![s].st = "closing", ![s].code = code ]
  ELSE cs

\* wss.on('connection')
RelayConnection(s) ==
  /\ relayUp
  /\ conns[s].st = "none"
  /\ conns' = [ conns EXCEPT ![s].st = "open" ]
  /\ UNCHANGED << relayUp, cameraSocket, clientSockets, lastSent >>
  /\ UNCHANGED << detectorVars, scoreVars, visionVars, gameVars >>

\* the handshake listener of connection s (ws.once('message')).  The catch
\* block reads messageString, which is declared inside the try block: the
\* ReferenceError leaves the listener and, nothing catching it, ends the process.
Handshake(s, msg) ==
  IF NotJSON(msg)
  THEN /\ relayUp' = FALSE
       /\ UNCHANGED << conns, cameraSocket, clientSockets >>
  ELSE IF msg = "camera-init"
  THEN /\ conns' = [ ( IF cameraSocket # 0 /\ cameraSocket # s
                       THEN CloseConn(conns, cameraSocket, 1000)
                       ELSE conns ) EXCEPT ![s].role = "camera" ]
       /\ cameraSocket' = s
       /\ UNCHANGED << relayUp, clientSockets >>
  ELSE IF msg = "client-init"
  THEN /\ clientSockets' = clientSockets \cup {s}
       /\ conns' = [ conns EXCEPT ![s].role = "client" ]
       /\ UNCHANGED << relayUp, cameraSocket >>
  ELSE /\ conns' = [ CloseConn(conns, s, 1008) EXCEPT ![s].role = "rejected" ]
       /\ UNCHANGED << relayUp, cameraSocket, clientSockets >>

\* the peer's close frame arrives on connection s: ws sets readyState to
\* CLOSING and emits 'close' only when the connection has ended, so no close
\* listener runs yet and the connection stays where the listeners put it; after
\* its close frame the peer sends no message
RelayCloseFrame(s) ==
  /\ relayUp
  /\ conns[s].st \in {"open", "closing"}
  /\ conns' = [ conns EXCEPT ![s].st = "closeReceived" ]
  /\ UNCHANGED << relayUp, cameraSocket, clientSockets, lastSent >>
  /\ UNCHANGED << detectorVars, scoreVars, visionVars, gameVars >>

\* the clients a frame of the designated camera is sent to
Receivers == { c \in clientSockets : conns[c].st = "open" }

\* a message listener of the camera branch that forwards whatever camera it
\* belongs to
RelayMessageFromAnyCamera(s, msg) ==
  /\ relayUp
  /\ conns[s].st \in {"open", "closing"}
  /\ IF conns[s].role = "new"
     THEN /\ Handshake(s, msg)
          /\ lastSent' = Some([from |-> s, to |-> {}])
     ELSE /\ lastSent' = Some([from |-> s,
                               to |-> IF conns[s].role = "camera"
                                      THEN Receivers ELSE {}])
          /\ UNCHANGED << relayUp, conns, cameraSocket, clientSockets >>
  /\ UNCHANGED << detectorVars, scoreVars, visionVars, gameVars >>

\* a message arrives on connection s; a connection the relay is closing still
\* receives what its peer sent before the peer's close frame
RelayMessage(s, msg) ==
  /\ relayUp
  /\ conns[s].st \in {"open", "closing"}
  /\ IF conns[s].role = "new"
     THEN /\ Handshake(s, msg)
          /\ lastSent' = Some([from |-> s, to |-> {}])
     ELSE /\ lastSent' = Some([from |-> s,
                               to |-> IF conns[s].role = "camera" /\ s = cameraSocket
                                      THEN Receivers ELSE {}])
          /\ UNCHANGED << relayUp, conns, cameraSocket, clientSockets >>
  /\ UNCHANGED << detectorVars, scoreVars, visionVars, gameVars >>

\* a close listener of the camera branch without the test ws === cameraSocket
RelayCloseClearsCamera(s) ==
  /\ relayUp
  /\ conns[s].st \in {"open", "closing", "closeReceived", "failed"}
  /\ conns' = [ conns EXCEPT ![s].st = "closed" ]
  /\ cameraSocket' = IF conns[s].role = "camera" THEN 0 ELSE cameraSocket
  /\ clientSockets' = IF conns[s].role = "client" THEN clientSockets \ {s}
                      ELSE clientSockets
  /\ UNCHANGED << relayUp, lastSent >>
  /\ UNCHANGED << detectorVars, scoreVars, visionVars, gameVars >>

\* 'close' of connection s: the connection has ended, after a close frame of
\* the peer, after an error or with no close frame at all
RelayClose(s) ==
  /\ relayUp
  /\ conns[s].st \in {"open", "closing", "closeReceived", "failed"}
  /\ conns' = [ conns EXCEPT ![s].st = "closed" ]
  /\ cameraSocket' = IF conns[s].role = "camera" /\ s = cameraSocket THEN 0
                     ELSE cameraSocket
  /\ clientSockets' = IF conns[s].role = "client" THEN clientSockets \ {s}
                      ELSE clientSockets
  /\ UNCHANGED << relayUp, lastSent >>
  /\ UNCHANGED << detectorVars, scoreVars, visionVars, gameVars >>

\* 'error' of connection s; ws emits 'close' after it and no message
RelayError(s) ==
  /\ relayUp
  /\ conns[s].st \in {"open", "closing"}
  /\ conns' = [ conns EXCEPT ![s].st = "failed" ]
  /\ cameraSocket' = IF conns[s].role = "camera" /\ s = cameraSocket THEN 0
                     ELSE cameraSocket
  /\ clientSockets' = IF conns[s].role = "client" THEN clientSockets \ {s}
                      ELSE clientSockets
  /\ UNCHANGED << relayUp, lastSent >>
  /\ UNCHANGED << detectorVars, scoreVars, visionVars, gameVars >>

\* SpecRelay: the relay from its start on, with up to MaxRelaySockets
\* connections that send any messages and close, in one step or with a close
\* frame first, or fail at any moment
InitRelay ==
  /\ InitCommon
  /\ variant = "centroid"
  /\ storage = None
  /\ limits = [frames |-> 0, now |-> 0]
  /\ point = None /\ scoreResult = None /\ scoreSeen = << >> /\ ScoringModuleLoaded
  /\ contourAreas = << >> /\ largestContour = None
  /\ contour = << >> /\ tipResult = None
  /\ RelayStarted /\ StoreCreated

NextRelay ==
  \/ \E s \in 1..MaxRelaySockets : RelayConnection(s)
  \/ \E s \in 1..MaxRelaySockets, msg \in RelayMessages : RelayMessage(s, msg)
  \/ \E s \in 1..MaxRelaySockets : RelayCloseFrame(s)
  \/ \E s \in 1..MaxRelaySockets : RelayClose(s)
  \/ \E s \in 1..MaxRelaySockets : RelayError(s)

SpecRelay == InitRelay /\ [][NextRelay]_vars

\* ============================================================ game store
\* The zustand store of src/store/gameStore.ts.  get() is the record Store,
\* set(partial) the record with the named fields replaced; an action that
\* throws before its set() leaves the store as it was.  Player names play no
\* part in any action and are left out of the player records.

\* a DartScore as calculateScore builds it
Dart(segment, multiplier) ==
  [segment |-> segment, multiplier |-> multiplier, points |-> segment * multiplier]
Miss == Dart(0, 1)
InnerBull == Dart(25, 2)

\* the darts thrown in the behaviours explored
Darts == { Miss, Dart(19, 1), Dart(20, 1), Dart(20, 2), InnerBull, Dart(20, 3) }

\* get()
Store ==
  [gameMode |-> gameMode, players |-> players, legsToWin |-> legsToWin,
   currentPlayerIndex |-> currentPlayerIndex, dartsRemaining |-> dartsRemaining,
   gameStarted |-> gameStarted, gameFinished |-> gameFinished,
   currentTurn |-> currentTurn]

\* the store holds g after the step
SetStore(g) ==
  /\ gameMode' = g.gameMode /\ players' = g.players /\ legsToWin' = g.legsToWin
  /\ currentPlayerIndex' = g.currentPlayerIndex
  /\ dartsRemaining' = g.dartsRemaining
  /\ gameStarted' = g.gameStarted /\ gameFinished' = g.gameFinished
  /\ currentTurn' = g.currentTurn

\* players[currentPlayerIndex] is undefined
NoCurrentPlayer(g) == g.currentPlayerIndex >= Len(g.players)

RECURSIVE SumPoints(_)
SumPoints(darts) ==
  IF darts = << >> THEN 0
  ELSE darts[1].points + SumPoints(Tail(darts))

setGameMode(g, mode) == [ g EXCEPT !.gameMode = mode ]

setLegsToWin(g, legs) == [ g EXCEPT !.legsToWin = legs ]

addPlayer(g) ==
  LET newPlayer == [id |-> Len(g.players) + 1,
                    score |-> g.gameMode, initialScore |-> g.gameMode,
                    dartsThrown |-> 0, legsWon |-> 0, currentTurn |-> FALSE,
                    history |-> << >>]
  IN  [ g EXCEPT !.players = Append(g.players, newPlayer) ]

removePlayer(g, id) ==
  [ g EXCEPT !.players = SelectSeq(g.players, LAMBDA player : player.id # id) ]

resetPlayers(g) == [ g EXCEPT !.players = << >> ]

startGame(g) ==
  IF Len(g.players) = 0 THEN g
  ELSE [ g EXCEPT
           !.players = [ k \in 1..Len(g.players) |->
                           [ g.players[k] EXCEPT !.score = g.gameMode,
                                                 !.initialScore = g.gameMode,
                                                 !.dartsThrown = 0,
                                                 !.currentTurn = (k - 1 = 0),
                                                 !.history = << >> ] ],
           !.currentPlayerIndex = 0,
           !.dartsRemaining = DEFAULT_DARTS_PER_TURN,
           !.gameStarted = TRUE, !.gameFinished = FALSE,
           !.currentTurn = << >> ]

\* resetPlayers[0].currentTurn = true throws when there is no player
resetGame(g) ==
  IF Len(g.players) = 0 THEN g
  ELSE [ g EXCEPT
           !.players = [ k \in 1..Len(g.players) |->
                           [ g.players[k] EXCEPT !.score = g.gameMode,
                                                 !.initialScore = g.gameMode,
                                                 !.dartsThrown = 0,
                                                 !.legsWon = 0,
                                                 !.currentTurn = (k = 1),
                                                 !.history = << >> ] ],
           !.currentPlayerIndex = 0,
           !.dartsRemaining = DEFAULT_DARTS_PER_TURN,
           !.gameStarted = FALSE, !.gameFinished = FALSE,
           !.currentTurn = << >> ]

\* a bust test that lets any dart finish a leg
IsBustWithoutDoubleOut(newScore, dart) ==
  newScore < 0 \/ newScore = 1

\* isBust of registerDart
IsBust(newScore, dart) ==
  newScore < 0 \/ newScore = 1 \/ (newScore = 0 /\ dart.multiplier # 2)

registerDart(g, dart) ==
  IF g.dartsRemaining <= 0 \/ Len(g.players) = 0 THEN g
  ELSE IF NoCurrentPlayer(g) THEN g
  ELSE
  LET currentPlayer == g.players[g.currentPlayerIndex + 1]
      newScore == currentPlayer.score - dart.points
      updatedCurrentTurn == Append(g.currentTurn, dart)
      updatedPlayer == [ currentPlayer EXCEPT !.score = newScore,
                                              !.dartsThrown = @ + 1 ]
      legWinner == [ updatedPlayer EXCEPT !.legsWon = @ + 1 ]
      nextPlayerIndex == (g.currentPlayerIndex + 1) % Len(g.players)
  IN  IF IsBust(newScore, dart)
      THEN [ g EXCEPT !.currentTurn = updatedCurrentTurn,
                      !.dartsRemaining = @ - 1 ]
      ELSE IF newScore = 0
      THEN IF legWinner.legsWon >= g.legsToWin
           THEN [ g EXCEPT !.players[g.currentPlayerIndex + 1] = legWinner,
                           !.currentTurn = updatedCurrentTurn,
                           !.gameFinished = TRUE,
                           !.dartsRemaining = 0 ]
           ELSE [ g EXCEPT
                    !.players =
                       [ k \in 1..Len(g.players) |->
                           [ ( IF k = g.currentPlayerIndex + 1 THEN legWinner
                               ELSE g.players[k] )
                             EXCEPT !.score = g.gameMode,
                                    !.currentTurn = (k - 1 = nextPlayerIndex),
                                    !.history = << >> ] ],
                    !.currentPlayerIndex = nextPlayerIndex,
                    !.dartsRemaining = DEFAULT_DARTS_PER_TURN,
                    !.currentTurn = << >> ]
      ELSE [ g EXCEPT !.players[g.currentPlayerIndex + 1] = updatedPlayer,
                      !.currentTurn = updatedCurrentTurn,
                      !.dartsRemaining = @ - 1 ]

endTurn(g) ==
  IF Len(g.players) = 0 THEN g
  ELSE IF NoCurrentPlayer(g) THEN g
  ELSE
  LET turnScore == SumPoints(g.currentTurn)
      currentPlayer == g.players[g.currentPlayerIndex + 1]
      finalScore == currentPlayer.score
      isBust == finalScore # currentPlayer.initialScore - turnScore
      turnHistory == [darts |-> g.currentTurn, score |-> turnScore,
                      remainingScore |-> IF isBust THEN currentPlayer.initialScore
                                         ELSE finalScore,
                      bust |-> isBust]
      playerWithHistory ==
        [ currentPlayer EXCEPT !.history = Append(@, turnHistory),
                               !.currentTurn = FALSE,
                               !.initialScore = IF isBust THEN @ ELSE finalScore ]
      nextPlayerIndex == (g.currentPlayerIndex + 1) % Len(g.players)
  IN  [ g EXCEPT
          !.players =
             [ k \in 1..Len(g.players) |->
                 [ ( IF k = g.currentPlayerIndex + 1 THEN playerWithHistory
                     ELSE g.players[k] )
                   EXCEPT !.currentTurn = IF k - 1 = nextPlayerIndex THEN TRUE
                                          ELSE @ ] ],
          !.currentPlayerIndex = nextPlayerIndex,
          !.dartsRemaining = DEFAULT_DARTS_PER_TURN,
          !.currentTurn = << >> ]

undoLastDart(g) ==
  IF Len(g.currentTurn) = 0 \/ Len(g.players) = 0 THEN g
  ELSE IF NoCurrentPlayer(g) THEN g
  ELSE
  LET removedDart == g.currentTurn[Len(g.currentTurn)]
      updatedCurrentTurn == SubSeq(g.currentTurn, 1, Len(g.currentTurn) - 1)
      currentPlayer == g.players[g.currentPlayerIndex + 1]
      updatedScore == currentPlayer.score + removedDart.points
  IN  [ g EXCEPT
          !.players[g.currentPlayerIndex + 1] =
             [ currentPlayer EXCEPT
                 !.score = updatedScore,
                 !.dartsThrown = IF @ - 1 > 0 THEN @ - 1 ELSE 0 ],
          !.currentTurn = updatedCurrentTurn,
          !.dartsRemaining = @ + 1 ]

\* one call of a store action that leaves the store as g; what is left of
\* bustDarts follows the darts left in currentTurn
StoreCall(g) ==
  /\ storeCalls < MaxStoreCalls
  /\ storeCalls' = storeCalls + 1
  /\ SetStore(g)
  /\ UNCHANGED << detectorVars, scoreVars, visionVars, relayVars >>

KeptBustDarts(g) == SubSeq(bustDarts, 1, Len(g.currentTurn))

SetGameMode(mode) ==
  /\ StoreCall(setGameMode(Store, mode))
  /\ UNCHANGED bustDarts

SetLegsToWin(legs) ==
  /\ StoreCall(setLegsToWin(Store, legs))
  /\ UNCHANGED bustDarts

AddPlayer ==
  /\ Len(players) < MaxStorePlayers
  /\ StoreCall(addPlayer(Store))
  /\ UNCHANGED bustDarts

RemovePlayer(id) ==
  /\ StoreCall(removePlayer(Store, id))
  /\ UNCHANGED bustDarts

ResetPlayers ==
  /\ StoreCall(resetPlayers(Store))
  /\ UNCHANGED bustDarts

StartGame ==
  /\ StoreCall(startGame(Store))
  /\ bustDarts' = KeptBustDarts(startGame(Store))

ResetGame ==
  /\ StoreCall(resetGame(Store))
  /\ bustDarts' = KeptBustDarts(resetGame(Store))

RegisterDart(dart) ==
  /\ StoreCall(registerDart(Store, dart))
  /\ bustDarts' =
       IF registerDart(Store, dart).currentTurn = Append(currentTurn, dart)
       THEN Append(bustDarts,
                   IsBust(players[currentPlayerIndex + 1].score - dart.points, dart))
       ELSE KeptBustDarts(registerDart(Store, dart))

EndTurn ==
  /\ StoreCall(endTurn(Store))
  /\ bustDarts' = KeptBustDarts(endTurn(Store))

UndoLastDart ==
  /\ StoreCall(undoLastDart(Store))
  /\ bustDarts' = KeptBustDarts(undoLastDart(Store))

\* scores from which a leg can be finished or bust with one or two darts
GameScores == {40, 50}

\* three turns of a 501 leg that leave the score sc (40 or 50)
TurnOf(darts, remaining) ==
  [darts |-> darts, score |-> SumPoints(darts), remainingScore |-> remaining,
   bust |-> FALSE]
TurnsTo(sc) ==
  << TurnOf(<< Dart(20, 3), Dart(20, 3), Dart(20, 3) >>, 321),
     TurnOf(<< Dart(20, 3), Dart(20, 3), Dart(20, 3) >>, 141),
     TurnOf(<< Dart(20, 3), Dart(20, 1),
               IF sc = 40 THEN Dart(7, 3) ELSE Dart(11, 1) >>, sc) >>

\* SpecGame: a 501 game in its first leg; every player has played three
\* turns and the first player is about to throw
InitGame ==
  /\ InitCommon
  /\ variant = "centroid"
  /\ storage = None
  /\ limits = [frames |-> 0, now |-> 0]
  /\ point = None /\ scoreResult = None /\ scoreSeen = << >> /\ ScoringModuleLoaded
  /\ contourAreas = << >> /\ largestContour = None
  /\ contour = << >> /\ tipResult = None
  /\ RelayStarted
  /\ gameMode = 501
  /\ legsToWin \in {1, 2}
  /\ \E n \in 1..MaxGamePlayers : \E sc \in [1..n -> GameScores] :
       players = [ k \in 1..n |->
                     [id |-> k, score |-> sc[k], initialScore |-> sc[k],
                      dartsThrown |-> 9, legsWon |-> 0, currentTurn |-> (k = 1),
                      history |-> TurnsTo(sc[k])] ]
  /\ currentPlayerIndex = 0 /\ dartsRemaining = DEFAULT_DARTS_PER_TURN
  /\ gameStarted = TRUE /\ gameFinished = FALSE /\ currentTurn = << >>
  /\ bustDarts = << >> /\ storeCalls = 0

NextGame ==
  \/ \E dart \in Darts : RegisterDart(dart)
  \/ UndoLastDart
  \/ EndTurn
  \/ ResetGame
  \/ StartGame
  \/ ResetPlayers

SpecGame == InitGame /\ [][NextGame]_vars

\* SpecPlayers: the store from its creation on, set up for games
InitPlayers ==
  /\ InitCommon
  /\ variant = "centroid"
  /\ storage = None
  /\ limits = [frames |-> 0, now |-> 0]
  /\ point = None /\ scoreResult = None /\ scoreSeen = << >> /\ ScoringModuleLoaded
  /\ contourAreas = << >> /\ largestContour = None
  /\ contour = << >> /\ tipResult = None
  /\ RelayStarted /\ StoreCreated

NextPlayers ==
  \/ AddPlayer
  \/ \E id \in 1..MaxStorePlayers : RemovePlayer(id)
  \/ ResetPlayers
  \/ \E mode \in {301, 501} : SetGameMode(mode)
  \/ \E legs \in 1..3 : SetLegsToWin(legs)
  \/ StartGame
  \/ ResetGame

SpecPlayers == InitPlayers /\ [][NextPlayers]_vars

\* ================================================================== claims

\* C1 as stated: the six observations end with exactly two detectDart calls
C1_Original ==
  script = Len(HysteresisScript) => detectCount = 2


\* C2: in the centroid variant, a pass that runs no later than 1000 ms after a
\* successful detection never calls detectDart, whatever the frame shows, and a
\* pass that rectifies a frame in that window leaves the motion state Still.
C2_Cooldown ==
  [][ ( /\ ProcessFrame
        /\ variant = "centroid"
        /\ delivered > 0
        /\ now - lastDetectionTimeRef <= DetectionCooldownMs )
      => ( /\ detectCount' = detectCount
           /\ lastPass'.branch = "warp" => isStill' /\ lastPass'.cooldown ) ]_vars

\* a pass has run inside the window on a frame that differs from the post-throw
\* frame of the detection (motion during the window), and the state is Still
C2_Witness ==
  /\ variant = "centroid" /\ delivered > 0
  /\ lastPass.branch = "warp" /\ lastPass.cooldown /\ ~lastPass.detect
  /\ lastDetect # None /\ lastDetect[1].found
  /\ lastPass.warped[1].seq > lastDetect[1].after.seq
  /\ lastPass.warped[1].lvl # lastDetect[1].after.lvl
  /\ now - lastDetectionTimeRef = DetectionCooldownMs
  /\ isStill

\* C4: in the centroid variant, when a pass outside cooldown takes the motion
\* state from Moving to Still: with a pre-throw frame held, the pass's frame
\* becomes the post-throw frame, detectDart is called once with (that frame, the
\* held pre-throw frame), and afterwards the pre-throw reference is that frame;
\* with no pre-throw frame held, the pass's frame becomes the pre-throw frame and
\* detectDart is not called.
C4_MovingToStill ==
  [][ ( /\ ProcessFrame
        /\ variant = "centroid"
        /\ ~isStill /\ isStill'
        /\ ~lastPass'.cooldown )
      => IF stillFrameBeforeDartRef # None
         THEN /\ stillFrameAfterDartRef' = lastPass'.warped
              /\ detectCount' = detectCount + 1
              /\ lastDetect' # None
              /\ lastDetect'[1].after = lastPass'.warped[1]
              /\ lastDetect'[1].before = stillFrameBeforeDartRef[1]
              /\ stillFrameBeforeDartRef' = lastPass'.warped
         ELSE /\ detectCount' = detectCount
              /\ stillFrameBeforeDartRef' = lastPass'.warped
              /\ stillFrameAfterDartRef' = stillFrameAfterDartRef ]_vars

\* a Moving->Still pass outside cooldown has just detected against a held
\* pre-throw frame, and the pre-throw reference is now its own frame
C4_Witness ==
  /\ variant = "centroid"
  /\ lastPass.branch = "warp" /\ ~lastPass.cooldown /\ ~lastPass.wasStill
  /\ lastPass.nowStill /\ lastPass.detect /\ lastPass.hadBefore
  /\ isStill /\ detectCount = 1
  /\ lastDetect[1].before.seq < lastDetect[1].after.seq
  /\ stillFrameBeforeDartRef = lastPass.warped
  /\ prevWarpedFrameRef = lastPass.warped

\* C5: at most one requestAnimationFrame callback is pending at any time, and
\* processingScheduled is true exactly while one is.
C5_Coalescing ==
  /\ Len(rafQueue) <= 1
  /\ processingScheduled <=> rafQueue # << >>

\* two frames have been decoded before any pass ran, and one pass is pending
C5_Witness ==
  /\ lastPass.branch = "none"
  /\ latestDecoded >= 2 /\ imgCur # None /\ imgCur[1].seq = latestDecoded
  /\ processingScheduled /\ Len(rafQueue) = 1

\* C6: a pass that reads a frame reads the one whose onload fired last; a frame
\* replaced before its pass ran is not read by that pass or any later one.
C6_LatestWins ==
  [][ ( ProcessFrame /\ lastPass'.src # None )
      => ( /\ lastPass'.src[1].seq = latestDecoded
           /\ lastPass.src # None => lastPass.src[1].seq <= lastPass'.src[1].seq ) ]_vars

\* a pass has compared its frame with a frame that is not the one sent just
\* before it: the frame in between was replaced and never processed
C6_Witness ==
  /\ lastPass.src # None /\ lastPass.prev # None
  /\ lastPass.prev[1].seq + 1 < lastPass.src[1].seq
  /\ lastPass.src[1].seq = latestDecoded


\* C3 as stated: no pass rectifies a frame whose size differs from the
\* sourceDimensions of the calibration record, nor keeps it as the previous frame
\* of the stillness comparison.
C3_Original ==
  /\ lastPass.warped # None => SameDims(lastPass.warped[1].dim, lastPass.cal[1].dims)
  /\ prevWarpedFrameRef # None /\ lastPass.cal # None
       => SameDims(prevWarpedFrameRef[1].dim, lastPass.cal[1].dims)

\* C7 as stated: after the stream has disconnected, no pass compares a frame
\* received after the disconnection with a frame received before it, and no
\* detection pairs two such frames.
C7_Original ==
  /\ ( lastPass.prev # None /\ lastPass.src # None /\ lastCloseSeq > 0 )
       => ~( lastPass.prev[1].seq < lastCloseSeq /\ lastPass.src[1].seq >= lastCloseSeq )
  /\ ( lastDetect # None /\ lastCloseSeq > 0 )
       => ~( lastDetect[1].before.seq < lastCloseSeq
             /\ lastDetect[1].after.seq >= lastCloseSeq )

\* C8 as stated: no pass compares frames rectified with different homographies,
\* and no detection pairs them.
C8_Original ==
  /\ ( lastPass.prev # None /\ lastPass.warped # None )
       => lastPass.prev[1].H = lastPass.warped[1].H
  /\ lastDetect # None => lastDetect[1].before.H = lastDetect[1].after.H

\* C9 as stated: a pass that finds itself connected, not calibrating and without
\* a calibration record leaves the motion state Moving, the three frame
\* references empty and no detected tip.
C9_Original ==
  [][ ( ProcessFrame /\ lastPass'.branch = "uncalibrated" )
      => ( /\ ~isStill'
           /\ prevWarpedFrameRef' = None
           /\ stillFrameBeforeDartRef' = None
           /\ stillFrameAfterDartRef' = None
           /\ ~detectedTip' ) ]_vars

\* C10 as stated: a pass that reads a frame whose size differs from the
\* record's sourceDimensions leaves no record in memory, no stored entry, and the
\* recalibration message in the error state.
C10_Original ==
  [][ ( /\ ProcessFrame
        /\ lastPass'.src # None /\ lastPass'.cal # None
        /\ ~SameDims(lastPass'.src[1].dim, lastPass'.cal[1].dims) )
      => ( /\ calibrationData' = None
           /\ storage' = None
           /\ error' = "dimensions changed" ) ]_vars


\* C11: in both variants, a pass whose detectDart call finds no contour or no
\* tip delivers no result, leaves lastDetectionTimeRef (the cooldown) and the
\* error state as they were, and leaves the pass's frame, the post-throw frame
\* of the attempt, as the pre-throw reference.
C11_NoDetection ==
  [][ ( /\ ProcessFrame
        /\ detectCount' = detectCount + 1
        /\ ~lastDetect'[1].found )
      => ( /\ delivered' = delivered
           /\ lastDetectionTimeRef' = lastDetectionTimeRef
           /\ error' = error
           /\ ~detectedTip'
           /\ lastDetect'[1].after = lastPass'.warped[1]
           /\ stillFrameBeforeDartRef' = Some(lastDetect'[1].after) ) ]_vars

\* the centroid variant has just compared two different frames and found no
\* tip: nothing was delivered, no cooldown runs, no error is shown and the
\* pre-throw reference has moved on to the attempt's post-throw frame
C11_Witness ==
  /\ variant = "centroid"
  /\ lastPass.detect /\ lastDetect # None /\ ~lastDetect[1].found
  /\ lastDetect[1].before.seq < lastDetect[1].after.seq
  /\ delivered = 0 /\ lastDetectionTimeRef = 0 /\ error = ""
  /\ stillFrameBeforeDartRef = Some(lastDetect[1].after)
  /\ stillFrameBeforeDartRef # Some(lastDetect[1].before)


\* C12: in the centroid variant, a pass that rectifies a frame and takes the
\* motion state from Still to Moving, or runs the "STILL -> NOT Still" block,
\* never calls detectDart; with no pre-throw frame held, the previous pass's
\* canonical frame becomes the pre-throw frame; a held pre-throw frame is kept.
C12_StillToMoving ==
  [][ ( /\ ProcessFrame
        /\ variant = "centroid"
        /\ lastPass'.branch = "warp"
        /\ \/ isStill /\ ~isStill'
           \/ lastPass'.wasStill /\ ~lastPass'.nowStill )
      => ( /\ detectCount' = detectCount
           /\ prevWarpedFrameRef # None
           /\ IF stillFrameBeforeDartRef = None
              THEN stillFrameBeforeDartRef' = prevWarpedFrameRef
              ELSE stillFrameBeforeDartRef' = stillFrameBeforeDartRef ) ]_vars

\* motion has started from a resting state without a pre-throw frame (the
\* state was forced Still in the first second after page load), and the frame
\* of the pass before, not the moving frame, is now the pre-throw reference
C12_Witness ==
  /\ variant = "centroid"
  /\ lastPass.branch = "warp" /\ lastPass.wasStill /\ ~lastPass.nowStill
  /\ ~lastPass.hadBefore /\ ~lastPass.detect /\ ~isStill
  /\ detectCount = 0
  /\ stillFrameBeforeDartRef # None /\ stillFrameBeforeDartRef = lastPass.prev
  /\ stillFrameBeforeDartRef[1].seq < lastPass.warped[1].seq
  /\ prevWarpedFrameRef = lastPass.warped


\* C13 as stated: after the ten frames, one detection was run on frame 4 as
\* pre-throw and frame 6 as post-throw
C13_Original ==
  ( inTurn = 10 /\ variant = "centroid" ) =>
    /\ detectCount = 1
    /\ lastDetect[1].before.seq = 4
    /\ lastDetect[1].after.seq = 6


\* C14 as stated: in the centroid variant, a pass outside cooldown that has no
\* previous frame to compare with, or whose observation agrees with the motion
\* state (quiet while Still, active while Moving), leaves the motion state and
\* the pre-throw reference as they were and does not call detectDart.
C14_Original ==
  [][ ( /\ ProcessFrame
        /\ variant = "centroid"
        /\ lastPass'.branch = "warp" /\ ~lastPass'.cooldown
        /\ \/ lastPass'.obs = None
           \/ lastPass'.obs # None /\ lastPass'.obs[1] < MotionThresholdX10 /\ isStill
           \/ lastPass'.obs # None /\ lastPass'.obs[1] >= MotionThresholdX10 /\ ~isStill )
      => ( /\ isStill' = isStill
           /\ stillFrameBeforeDartRef' = stillFrameBeforeDartRef
           /\ detectCount' = detectCount ) ]_vars


\* C15 as stated: when the render that shows the 4th clicked point runs the
\* solve and the solve fails (no 3x3 matrix, or an exception), the component is
\* still calibrating and the list of clicked points is empty again.
C15_Original ==
  [][ ( /\ HandleCanvasClick \/ Render \/ RunEffects
        /\ rendered'.isCalibrating
        /\ rendered'.clickedPoints = CALIBRATION_POINTS_REQUIRED
        /\ rendered.clickedPoints # CALIBRATION_POINTS_REQUIRED
        /\ error' \in {"calibration failed", "calibration error"} )
      => ( isCalibrating' /\ clickedPoints' = 0 ) ]_vars


\* C16: cancelCalibration, and a click or render whose solve fails, leave the
\* calibration record and the stored entry as they were; the record or the
\* stored entry changes only in a step whose solve succeeds (both become the
\* new record), in resetCalibration by the Reset button (both removed), or in a
\* pass that finds the frame size different from the record's
\* sourceDimensions (both removed).
C16_RecordKept ==
  [][ /\ CancelCalibration
           => calibrationData' = calibrationData /\ storage' = storage
      /\ ( /\ HandleCanvasClick \/ Render \/ RunEffects
           /\ error' \in {"calibration failed", "calibration error"} )
           => calibrationData' = calibrationData /\ storage' = storage
      /\ ( calibrationData' # calibrationData \/ storage' # storage )
           => \/ /\ HandleCanvasClick \/ Render \/ RunEffects
                 /\ calibSeq' = calibSeq + 1
                 /\ calibrationData' # None /\ storage' = calibrationData'
                 /\ calibrationData'[1].H = calibSeq'
              \/ /\ ResetCalibration
                 /\ calibrationData' = None /\ storage' = None
              \/ /\ ProcessFrame /\ lastPass'.mismatch
                 /\ calibrationData' = None /\ storage' = None ]_vars

\* a re-calibration of a calibrated session has failed: the four points and the
\* failure message are on screen, and the earlier record is still in memory and
\* in storage
C16_Witness ==
  /\ isCalibrating /\ clickedPoints = CALIBRATION_POINTS_REQUIRED
  /\ rendered.clickedPoints = CALIBRATION_POINTS_REQUIRED
  /\ error \in {"calibration failed", "calibration error"}
  /\ calibrationData = Some(StoredDefault) /\ storage = calibrationData
  /\ calibSeq = 0


\* C17 as stated: the list of clicked points never holds more than 4 points,
\* and it grows only in a state that is calibrating with fewer than 4 points.
C17_Original ==
  [][ /\ clickedPoints' <= CALIBRATION_POINTS_REQUIRED
      /\ clickedPoints' > clickedPoints
           => ( isCalibrating /\ clickedPoints < CALIBRATION_POINTS_REQUIRED ) ]_vars


\* C18: a step whose solve succeeds leaves the new record, with the frame size
\* held in the dimensions state, both in memory and in storage, and leaves
\* calibration mode with no clicked points; the Reset button leaves neither a
\* record nor a stored entry; and once OpenCV has loaded and the stored entry
\* has been read, the stored entry and the record in memory are the same.
C18_Persistence ==
  [][ /\ calibSeq' = calibSeq + 1
           => /\ calibrationData' = Some([ shape |-> "ok",
                                           dims |-> [ width |-> dimensions.width,
                                                      height |-> dimensions.height ],
                                           H |-> calibSeq' ])
              /\ storage' = calibrationData'
              /\ ~isCalibrating' /\ clickedPoints' = 0
      /\ ResetCalibration => calibrationData' = None /\ storage' = None
      /\ cvLoaded' => storage' = calibrationData' ]_vars

\* after a startup load that found no usable entry, the operator has
\* calibrated: the new record is in memory and in storage
C18_Witness ==
  /\ cvLoaded /\ calibSeq = 1
  /\ calibrationData # None /\ calibrationData[1].H = 1
  /\ storage = calibrationData
  /\ ~isCalibrating /\ clickedPoints = 0 /\ error = ""

\* C19 as stated: the startup load puts a stored entry in memory only if it
\* parses and holds 4 image points, 4 world points and a matrix; any other
\* entry is removed from storage and the component starts uncalibrated.
C19_Original ==
  [][ CvLoad
      => IF storage # None /\ storage[1].shape = "ok"
         THEN calibrationData' = storage /\ storage' = storage
         ELSE calibrationData' = None /\ storage' = None ]_vars


\* C20: the score of a canonical point follows from its distance d to the board
\* center (250, 250): 50 if d <= 8; else 25 if d <= 20; else 0 if d > 215; else
\* the face value of its segment times 3 if 120 <= d <= 135, times 2 if
\* 200 <= d <= 215, and times 1 otherwise, every boundary radius included.
C20_ScoreByRadius ==
  (point # None /\ scoreResult # None)
    => LET dx == point[1].x - 250
           dy == point[1].y - 250
           dd == dx * dx + dy * dy
           multiplier == IF 120 * 120 <= dd /\ dd <= 135 * 135 THEN 3
                         ELSE IF 200 * 200 <= dd /\ dd <= 215 * 215 THEN 2
                         ELSE 1
       IN  scoreResult[1].score =
             IF dd <= 8 * 8 THEN 50
             ELSE IF dd <= 20 * 20 THEN 25
             ELSE IF dd > 215 * 215 THEN 0
             ELSE baseScore(dx, dy) * multiplier

\* the call has returned for (379, 422), which lies at distance exactly 215 from
\* the center (129, 172, 215 is a Pythagorean triple) in the segment of
\* face value 18: it scored the double, 36
C20_Witness ==
  /\ point = Some([x |-> 379, y |-> 422])
  /\ scoreResult # None
  /\ baseScore(129, 172) = 18
  /\ scoreResult[1].score = 36


\* the point at offset (dx, dy) from the board center (y grows downwards) lies
\* strictly inside the k-th 18-degree segment counted clockwise from the top:
\* the segment's two boundaries, at 18k - 9 and 18k + 9 degrees clockwise from
\* straight up, have the screen directions (SegmentBoundX, SegmentBoundY) of
\* entries k and k + 1
InClockwiseSegment(k, dx, dy) ==
  LET lo == k + 1
      hi == ((k + 1) % 20) + 1
  IN  /\ SegmentBoundX[lo] * dy - SegmentBoundY[lo] * dx > 0
      /\ dx * SegmentBoundY[hi] - dy * SegmentBoundX[hi] > 0

\* C21 as stated: a point of the scoring rings inside the k-th segment counted
\* clockwise from the top (its angular center included) gets the face value
\* [20,1,18,4,13,6,10,15,2,17,3,19,7,16,8,11,14,9,12,5][k], times the ring's
\* multiplier; a point straight above the center scores 20 in the single area
\* and 60 in the triple ring.
C21_Original ==
  (point # None /\ scoreResult # None)
    => LET dx == point[1].x - 250
           dy == point[1].y - 250
           dd == dx * dx + dy * dy
           multiplier == IF 120 * 120 <= dd /\ dd <= 135 * 135 THEN 3
                         ELSE IF 200 * 200 <= dd /\ dd <= 215 * 215 THEN 2
                         ELSE 1
       IN  \A k \in 0..19 :
             (dd > 20 * 20 /\ dd <= 215 * 215 /\ InClockwiseSegment(k, dx, dy))
               => scoreResult[1].score =
                    << 20, 1, 18, 4, 13, 6, 10, 15, 2, 17,
                       3, 19, 7, 16, 8, 11, 14, 9, 12, 5 >>[k + 1] * multiplier


\* C22: a buffer that fails to decode is dropped by itself: its onerror
\* schedules no pass and leaves the calibration (in memory and stored), the
\* calibration mode, the motion state, the held frames, the cooldown clock and
\* the socket as they were; and ingestion goes on: every frame that decodes,
\* also after a failure, becomes the image a pass reads and has a pass
\* scheduled, and a pass that finds a decoded image rectifies it (the
\* lowest-point variant first waits, rescheduling itself, while throttled).
C22_DecodeFailure ==
  [][ /\ ImgError
           => /\ UNCHANGED << processingScheduled, rafQueue >>
              /\ UNCHANGED << calibrationData, storage, isCalibrating, clickedPoints >>
              /\ UNCHANGED << isStill, prevWarpedFrameRef, stillFrameBeforeDartRef,
                              stillFrameAfterDartRef, lastDetectionTimeRef >>
              /\ UNCHANGED << wsVars, isConnected, error, detectCount, delivered >>
      /\ ImgLoad
           => /\ imgCur' = Some(imgPending[1].frame)
              /\ processingScheduled' /\ rafQueue' # << >>
      /\ ( /\ ProcessFrame
           /\ imgCur # None
           /\ variant = "lowest" => imgPending = None )
           => /\ lastPass'.branch \in {"warp", "throttled"}
              /\ lastPass'.branch = "warp" => lastPass'.src = imgCur
              /\ lastPass'.branch = "throttled" => processingScheduled' ]_vars

\* the latest buffer failed to decode in a session that had come to rest on
\* earlier frames: the <img> is broken, no pass is scheduled, and the previous
\* and the pre-throw frame are still held
C22_Witness ==
  /\ imgCur = None /\ imgPending = None
  /\ latestDecoded >= 2 /\ nextSeq > latestDecoded + 1
  /\ ~processingScheduled /\ rafQueue = << >>
  /\ isStill
  /\ prevWarpedFrameRef # None /\ prevWarpedFrameRef[1].live
  /\ stillFrameBeforeDartRef # None
  /\ calibrationData # None


\* C23 as stated: no pass of the centroid variant ends with an uncaught
\* exception; a pass in which an exception was thrown sets the processing error,
\* leaves the held frames and the calibration as they were (the frame is
\* dropped) and leaves no pass scheduled, so the next frame that decodes gets
\* its own pass.
C23_Original ==
  [][ (ProcessFrame /\ variant = "centroid")
        => /\ lastPass'.branch # "uncaught"
           /\ lastPass'.thrown
                => /\ error' = "processing error"
                   /\ UNCHANGED << prevWarpedFrameRef, stillFrameBeforeDartRef,
                                   stillFrameAfterDartRef, isStill, detectCount >>
                   /\ ~processingScheduled' ]_vars


\* C24 as stated: none of the three single-slot references (previous,
\* pre-throw, post-throw) ever refers to a frame that was released already,
\* and no pass releases a frame a second time (the second .delete() on a Mat
\* throws).
C24_Original ==
  /\ \A ref \in { prevWarpedFrameRef, stillFrameBeforeDartRef, stillFrameAfterDartRef } :
       ref # None => ref[1].live
  /\ ~lastPass.thrown


\* the contours a variant does not discard
InAreaRange(v, area) ==
  IF v = "centroid" THEN area > DartAreaMin /\ area < DartAreaMax
  ELSE area > NoiseArea

\* C25 (contour selection), as the code has it: the centroid variant discards
\* the contours whose area is not strictly between the two dart limits, the
\* lowest-point variant only those not above the noise limit; the contour kept
\* is the first of the remaining ones that has the greatest area, and when
\* none remains none is kept.
C25_ContourSelection ==
  largestContour # None =>
    LET kept == largestContour[1]
        inRange == { i \in 0..(Len(contourAreas) - 1) :
                       InAreaRange(variant, contourAreas[i + 1]) }
    IN  IF inRange = {} THEN kept = -1
        ELSE /\ kept \in inRange
             /\ \A j \in inRange :
                  \/ contourAreas[kept + 1] > contourAreas[j + 1]
                  \/ contourAreas[kept + 1] = contourAreas[j + 1] /\ kept <= j

\* the centroid variant has passed over a contour that is too large and one
\* that is too small and kept the first of two equal contours in the range
C25_Witness ==
  /\ variant = "centroid"
  /\ contourAreas = << 2500, 1200, 1200 >>
  /\ largestContour = Some(1)

\* C25 (contour selection) as stated, with the dart limits for both variants:
\* the contour kept by a detection attempt lies in the
\* plausible-dart area range and no contour in the range is larger; when no
\* contour lies in the range, none is kept.
C25_Original ==
  largestContour # None =>
    LET kept == largestContour[1]
        inRange == { i \in 0..(Len(contourAreas) - 1) :
                       /\ contourAreas[i + 1] > DartAreaMin
                       /\ contourAreas[i + 1] < DartAreaMax }
    IN  IF inRange = {} THEN kept = -1
        ELSE /\ kept \in inRange
             /\ \A j \in inRange : contourAreas[kept + 1] >= contourAreas[j + 1]


\* C26 (tip extraction), as the code has it: the centroid variant returns a
\* point of the contour from which no point of the contour is further from
\* the contour's centroid, and no point for an empty contour or one of zero
\* area; the lowest-point variant returns the first point of the contour that
\* has the greatest y, and no point for an empty contour only.
C26_TipExtraction ==
  tipResult # None =>
    LET tip == tipResult[1] IN
    IF variant = "centroid"
    THEN IF Len(contour) = 0 \/ a00(contour) = 0 THEN tip = None
         ELSE /\ tip # None
              /\ \E i \in 1..Len(contour) : contour[i] = tip[1]
              /\ \A i \in 1..Len(contour) :
                   ~FurtherFromCentroid(contour, contour[i], tip[1])
    ELSE IF Len(contour) = 0 THEN tip = None
         ELSE /\ tip # None
              /\ \E i \in 1..Len(contour) :
                   /\ contour[i] = tip[1]
                   /\ \A j \in 1..Len(contour) : contour[j].y <= contour[i].y
                   /\ \A j \in 1..(i - 1) : contour[j].y < contour[i].y

\* the centroid variant has returned the one point furthest from the centroid
\* (1, 2/3) of a triangle; it is neither the first nor the lowest point
C26_Witness ==
  /\ variant = "centroid"
  /\ contour = << [x |-> 1, y |-> 1], [x |-> 0, y |-> 0], [x |-> 2, y |-> 1] >>
  /\ tipResult = Some(Some([x |-> 0, y |-> 0]))

\* C26 (tip extraction) as stated, for both variants: the landing point
\* returned for a contour is a point of
\* the contour, and no point of the contour is further from the contour's
\* centroid; an empty contour and a contour of zero area yield no landing point.
C26_Original ==
  tipResult # None =>
    LET tip == tipResult[1] IN
    IF Len(contour) = 0 \/ a00(contour) = 0 THEN tip = None
    ELSE /\ tip # None
         /\ \E i \in 1..Len(contour) : contour[i] = tip[1]
         /\ \A i \in 1..Len(contour) : ~FurtherFromCentroid(contour, contour[i], tip[1])


\* C27 (result delivery): onDetectionUpdate is called once by every detection
\* attempt that extracted a tip, and by nothing else.
C27_Original ==
  [][ delivered' = delivered +
        (IF detectCount' # detectCount /\ lastDetect'[1].found THEN 1 ELSE 0) ]_vars


C29_Original ==
  ( wsRef # 0 /\ sockets[wsRef].st = "open" /\ sockets[wsRef].inited ) => isConnected


\* C30 (one detection per Moving->Still edge): in the centroid variant, of two
\* passes that follow one another and both observe a quiet board, so that both
\* lie in one unbroken run of quiet observations, at most one calls detectDart.
C30_Original ==
  [][ ( /\ ProcessFrame
        /\ variant = "centroid"
        /\ lastPass.detect /\ lastPass.obs # None
        /\ lastPass.obs[1] < MotionThresholdX10
        /\ lastPass'.obs # None /\ lastPass'.obs[1] < MotionThresholdX10 )
      => ~lastPass'.detect ]_vars


\* C31 (cooldown only after a detection): in the centroid variant, while no
\* detection has succeeded yet, no rectifying pass is inside a cooldown window,
\* none forces the state to Still, and every such pass that has a previous
\* frame compares the new frame with it.
C31_Original ==
  [][ ( /\ ProcessFrame
        /\ variant = "centroid"
        /\ delivered = 0
        /\ lastPass'.branch = "warp" )
      => ( /\ ~lastPass'.cooldown
           /\ prevWarpedFrameRef # None => lastPass'.obs # None ) ]_vars


\* C32 (relay forwarding): a message is sent on only when it arrives on the
\* designated camera, which identified itself with an earlier message, and
\* then only to identified clients that are open; the message a connection
\* identifies itself with is sent to nobody.
C32_Forwarding ==
  [][ \A s \in 1..MaxRelaySockets, msg \in RelayMessages :
        RelayMessage(s, msg) =>
          /\ lastSent'[1].from = s
          /\ lastSent'[1].to # {} =>
               /\ s = cameraSocket /\ conns[s].role = "camera"
               /\ \A c \in lastSent'[1].to :
                    conns[c].role = "client" /\ conns[c].st = "open"
          /\ conns[s].role = "new" => lastSent'[1].to = {} ]_vars

\* a frame of the designated camera has gone to an open client and not to a
\* client whose close frame has arrived and whose close listener has not run
C32_Witness ==
  /\ lastSent # None
  /\ lastSent[1].from = cameraSocket
  /\ lastSent[1].to # {}
  /\ \E c \in clientSockets :
       conns[c].st = "closeReceived" /\ c \notin lastSent[1].to


\* C33 (camera designation): the designated camera is a connection that
\* identified itself as camera and is not a client, and no connection is both;
\* a camera-init makes its sender the camera and closes the camera it replaces;
\* the designation is cleared only by a close or error event of the connection
\* that holds it, never by an event of a replaced camera.
C33_Designation ==
  [][ /\ cameraSocket' # 0 =>
           /\ conns'[cameraSocket'].role = "camera"
           /\ cameraSocket' \notin clientSockets'
      /\ \A s \in clientSockets' : conns'[s].role = "client"
      /\ \A s \in 1..MaxRelaySockets :
           ( RelayMessage(s, "camera-init") /\ conns[s].role = "new" ) =>
             /\ cameraSocket' = s
             /\ ( cameraSocket # 0 /\ cameraSocket # s ) =>
                  /\ conns'[cameraSocket].st \in {"closing", "closeReceived", "failed", "closed"}
                  /\ conns[cameraSocket].st = "open" => conns'[cameraSocket].code = 1000
      /\ ( cameraSocket # 0 /\ cameraSocket' = 0 ) =>
           RelayClose(cameraSocket) \/ RelayError(cameraSocket)
      /\ \A s \in 1..MaxRelaySockets :
           ( ( RelayClose(s) \/ RelayError(s) ) /\ s # cameraSocket ) =>
             cameraSocket' = cameraSocket ]_vars

\* the replaced camera has closed and the camera that replaced it is still
\* the designated one
C33_Witness ==
  /\ cameraSocket # 0 /\ conns[cameraSocket].st = "open"
  /\ \E s \in 1..MaxRelaySockets :
       /\ s # cameraSocket /\ conns[s].role = "camera"
       /\ conns[s].code = 1000 /\ conns[s].st = "closed"


\* C34 (relay handshake errors): a connection whose first message is not JSON
\* or is JSON of an unknown type is closed with code 1008 and is neither the
\* camera nor a client; the relay keeps running and the designated camera, the
\* clients and all other connections stay as they were.
C34_Original ==
  [][ \A s \in 1..MaxRelaySockets, msg \in {"frame", "other-json"} :
        ( RelayMessage(s, msg) /\ conns[s].role = "new" ) =>
          /\ relayUp'
          /\ conns'[s].st = "closing" /\ conns'[s].code = 1008
          /\ cameraSocket' = cameraSocket /\ cameraSocket' # s
          /\ clientSockets' = clientSockets /\ s \notin clientSockets'
          /\ \A t \in 1..MaxRelaySockets : t # s => conns'[t] = conns[t] ]_vars


\* what the undo round trip is to restore: the score and dartsThrown of the
\* player at index i, dartsRemaining and currentTurn
TurnState(g, i) ==
  [score |-> g.players[i + 1].score, dartsThrown |-> g.players[i + 1].dartsThrown,
   dartsRemaining |-> g.dartsRemaining, currentTurn |-> g.currentTurn]

\* C35 (undo round trip): in every state of a game and for every dart,
\* registerDart(dart) followed at once by undoLastDart() restores the current
\* player's score and dartsThrown, dartsRemaining and currentTurn, also when
\* the dart was a bust; undoLastDart with an empty currentTurn changes nothing.
C35_Original ==
  /\ \A dart \in Darts :
       IF Len(players) = 0
       THEN undoLastDart(registerDart(Store, dart)) = Store
       ELSE TurnState(undoLastDart(registerDart(Store, dart)), currentPlayerIndex)
              = TurnState(Store, currentPlayerIndex)
  /\ currentTurn = << >> => undoLastDart(Store) = Store


\* some dart of the current turn was judged a bust when it was registered
TurnHasBust == \E i \in 1..Len(bustDarts) : bustDarts[i]

\* C36 (bust reverts the turn): when endTurn closes a turn that contains a
\* bust dart, the player's score after endTurn is the score the turn started
\* from, which is the remainingScore the turn's history entry records,
\* whatever valid darts the turn holds before or after the bust dart.
C36_Original ==
  [][ ( EndTurn /\ TurnHasBust /\ Len(players) > 0 ) =>
        LET player == players'[currentPlayerIndex + 1]
        IN  /\ player.history[Len(player.history)].bust
            /\ player.score = player.history[Len(player.history)].remainingScore
    ]_vars


\* C37 (bust turns in the history): endTurn records the turn as bust exactly
\* when some dart registered in it was a bust, in the first leg and in the
\* legs after it; of a turn without a bust dart it records the player's
\* score as remainingScore, and that score is what the player's next turn
\* starts from.
C37_Original ==
  [][ ( EndTurn /\ Len(players) > 0 ) =>
        LET player == players'[currentPlayerIndex + 1]
            turn == player.history[Len(player.history)]
        IN  /\ turn.bust <=> TurnHasBust
            /\ ~TurnHasBust => /\ turn.remainingScore = player.score
                               /\ player.initialScore = player.score
    ]_vars


\* C38 (double-out): a call of registerDart with darts remaining and players
\* present raises the current player's legsWon by one exactly when the dart
\* brings the score to 0 and has multiplier 2, and raises nobody else's; a
\* dart that would leave the score below 0, at 1, or at 0 without a double
\* leaves the players as they were, is appended to currentTurn and takes one
\* of the remaining darts; with no darts remaining or no players the call
\* changes nothing.
C38_DoubleOut ==
  [][ \A dart \in Darts : RegisterDart(dart) =>
        IF dartsRemaining <= 0 \/ Len(players) = 0
        THEN Store' = Store
        ELSE LET i == currentPlayerIndex + 1
                 left == players[i].score - dart.points
             IN  /\ players'[i].legsWon =
                      IF left = 0 /\ dart.multiplier = 2
                      THEN players[i].legsWon + 1 ELSE players[i].legsWon
                 /\ \A k \in 1..Len(players) :
                      k # i => players'[k].legsWon = players[k].legsWon
                 /\ ( left < 0 \/ left = 1 \/ (left = 0 /\ dart.multiplier # 2) ) =>
                      /\ players' = players
                      /\ currentTurn' = Append(currentTurn, dart)
                      /\ dartsRemaining' = dartsRemaining - 1
    ]_vars

\* a turn with a bust dart and then a double that won a leg and the game,
\* after which no dart remains
C38_Witness ==
  /\ TurnHasBust
  /\ Len(currentTurn) >= 2 /\ currentTurn[Len(currentTurn)].multiplier = 2
  /\ ~bustDarts[Len(bustDarts)]
  /\ players[currentPlayerIndex + 1].legsWon = 1
  /\ players[currentPlayerIndex + 1].score = 0
  /\ dartsRemaining = 0


\* C39 (player ids are unique): after any sequence of addPlayer, removePlayer
\* and resetPlayers calls no two players have the same id, and removePlayer
\* with the id of a player removes that player and no other.
C39_Original ==
  /\ \A i, j \in 1..Len(players) : i # j => players[i].id # players[j].id
  /\ \A i \in 1..Len(players) :
       Len(removePlayer(Store, players[i].id).players) = Len(players) - 1


\* a step of registerDart that raises some player's legsWon to legsToWin or more
GameWinningDart ==
  /\ \E dart \in Darts : RegisterDart(dart)
  /\ \E k \in 1..Len(players) :
       /\ players'[k].legsWon > players[k].legsWon
       /\ players'[k].legsWon >= legsToWin

\* C40 (a finished game is frozen): gameFinished turns true exactly on a step
\* of registerDart that raises a player's legsWon to at least legsToWin, and
\* while gameFinished is true no call of registerDart, undoLastDart or endTurn
\* changes a player's score or legsWon, the current player or dartsRemaining.
C40_Original ==
  [][ /\ ( ~gameFinished /\ gameFinished' ) <=> GameWinningDart
      /\ ( gameFinished /\ ( (\E dart \in Darts : RegisterDart(dart))
                             \/ UndoLastDart \/ EndTurn ) ) =>
           /\ \A k \in 1..Len(players) :
                /\ players'[k].score = players[k].score
                /\ players'[k].legsWon = players[k].legsWon
           /\ currentPlayerIndex' = currentPlayerIndex
           /\ dartsRemaining' = dartsRemaining
    ]_vars

====
